---- MODULE Spec2Model ----
(***************************************************************************)
(* Verification model of the volumetric-display runtime:                   *)
(*   - the LFO-to-effect mapping engine        (src/src/main.rs)           *)
(*   - the sender-monitor health tracker       (sender_monitor.rs)         *)
(*   - the control-port display diffing engine (control_port.rs)           *)
(*   - the control-port connection supervisor  (control_port.rs)           *)
(* Each subsystem has its own specification (SpecMap, SpecMon, SpecDiff,   *)
(* SpecPort); the variables of the other subsystems stay at their initial  *)
(* value.                                                                  *)
(***************************************************************************)
EXTENDS Integers, Sequences, FiniteSets, TLC

(***************************************************************************)
(* ==============================  STATE  ================================ *)
(***************************************************************************)

\* Mapping engine (main.rs)
VARIABLES
    current_lfo_bank,          \* AppStateBanks.current_lfo_bank
    current_effect_bank,       \* AppStateBanks.current_effect_bank
    mapping,                   \* AppState.mapping: the <<row, col>> that are true
    fader_override_active,     \* AppState.fader_override_active: the <<bank, col>> that are true
    fader_override_value,      \* AppState.fader_override_value[bank][col]
    latest_lfo_values,         \* AppState.latest_lfo_values[row]
    last_midi,                 \* message_data last taken from midi_rx
    events,                    \* number of input events delivered so far
    osc_sent_values,           \* osc_sender_loop local: last sent value per column
    next_osc_values_to_send,   \* osc_sender_loop local: values computed in this tick
    sender_pc,                 \* position of osc_sender_loop: "tick" or "send"
    bundle,                    \* messages_for_bundle of the last tick, <<col, value>>
    send_result                \* outcome of the last tick: "none", "ok" or "err"

mapVars == <<current_lfo_bank, current_effect_bank, mapping, fader_override_active,
             fader_override_value, latest_lfo_values, last_midi, events,
             osc_sent_values, next_osc_values_to_send, sender_pc, bundle, send_result>>

\* Sender monitor (sender_monitor.rs)
VARIABLES
    controllers,        \* SenderMonitor.controllers: key -> ControllerStatus
    cooldown_duration,  \* SenderMonitor.cooldown_duration, seconds
    now,                \* Utc::now(), seconds
    stats_pc,           \* get_stats: "idle", or "collect" between its two passes
    stats_now,          \* `now` of the update_controller_statuses pass in progress
    stats_snapshot      \* the last value returned by get_stats, with its read time

monVars == <<controllers, cooldown_duration, now, stats_pc, stats_now, stats_snapshot>>

\* Control-port display (control_port.rs)
VARIABLES
    front_buffer,       \* ControllerState.front_buffer[y][x]
    back_buffer,        \* ControllerState.back_buffer[y][x]
    lcd,                \* what the device shows: the effect of the messages it was given
    commit_result,      \* messages returned by the ControllerState::commit_display call
    applied,            \* how many of them the display has taken
    diff_pc             \* "commit" before the commit_display call, "returned" after it

dispVars == <<front_buffer, back_buffer, lcd>>
diffVars == <<commit_result, applied, diff_pc>>

\* Control-port connection (control_port.rs)
VARIABLES
    connected,          \* ControllerState.connected
    sup_pc,             \* position of run_controller_task / attempt_connection
    conn_count,         \* TCP connections established so far; the last is the attempt's `stream`
    tx_chan,            \* the channel that ControllerState.message_tx sends on
    rx_slot,            \* the channel whose receiver is in ControllerState.message_rx, or None
    chan_queue,         \* per channel: messages sent and not yet received, <<serial, message>>
    enqueued,           \* per channel: <<serial, connected at the send>> of the messages sent on it, in order
    msg_seq,            \* number of messages enqueued so far (the next serial)
    io_pc,              \* per connection: position of its handle_connection task
    io_chan,            \* per connection: the channel whose receiver its task took, or None
    wire,               \* per connection: serials of the messages written to its socket
    refresh_pc          \* per connection: position of its display refresh task

portVars == <<connected, sup_pc, conn_count, tx_chan, rx_slot, chan_queue,
              enqueued, msg_seq, io_pc, io_chan, wire, refresh_pc>>

\* Calls on one ControllerState (control_port.rs)
VARIABLES
    op_count,           \* number of display calls made so far
    last_op             \* the last display call: its kind and arguments

callVars == <<op_count, last_op>>

\* Heartbeat tracking of one ControllerState (control_port.rs)
VARIABLES
    beat_now,                   \* Utc::now(), in ticks of 1 / TICKS_PER_SECOND s
    last_heartbeat_received,    \* ControllerState.last_heartbeat_received, or NoTime
    heartbeat_received_active,  \* ControllerState.heartbeat_received_active
    last_noop_sent,             \* ControllerState.last_noop_sent, or NoTime
    noop_sent_active,           \* ControllerState.noop_sent_active
    last_noop_enqueued,         \* when a Noop last went onto the outgoing channel, or NoTime
    beat_stats                  \* the stats last returned by get_stats, with their time

beatVars == <<beat_now, last_heartbeat_received, heartbeat_received_active,
              last_noop_sent, noop_sent_active, last_noop_enqueued, beat_stats>>

\* Tasks and state of one ControlPort (control_port.rs)
VARIABLES
    shutdown_done,      \* ControlPortManager::shutdown has returned
    port_connected,     \* ControlPort.state.connected
    fwd_pc              \* position of the button forwarding task

shutVars == <<shutdown_done, port_connected, fwd_pc>>

\* Button fan-out of one ControlPort (control_port.rs, lib.rs).  A button
\* vector is represented by its serial number among the parsed button lines.
VARIABLES
    btn_count,          \* button lines parsed so far
    ctl_chan,           \* values sent on ControllerState.button_broadcast
    fwd_next,           \* forwarding task's receiver: values of ctl_chan passed
    fwd_got,            \* values the forwarding task received
    fwd_lag_at,         \* Len(ctl_chan) at its latest Lagged, -1 if none
    port_chan,          \* values sent on ControlPort.button_broadcast
    rcv_pc,             \* per ButtonEventReceiver: position
    rcv_next,           \* per ButtonEventReceiver: values of port_chan passed
    rcv_got,            \* per ButtonEventReceiver: values handed to the callback
    rcv_since,          \* per ButtonEventReceiver: btn_count when it subscribed
    rcv_lag_at          \* per ButtonEventReceiver: Len(port_chan) at its Lagged, -1 if none

btnVars == <<btn_count, ctl_chan, fwd_next, fwd_got, fwd_lag_at, port_chan,
             rcv_pc, rcv_next, rcv_got, rcv_since, rcv_lag_at>>

\* One ArtNetController (artnet/lib.rs)
VARIABLES
    art_call,           \* arguments of the send_dmx invocation in progress
    art_pc,             \* position in send_dmx_rust_raster_data
    art_zs,             \* z_indices_ref
    art_out_z,          \* index of the layer in the enumeration, from 0
    art_universe,       \* universe
    art_bytes,          \* data_to_send
    art_layer_base,     \* number of datagrams sent before the current layer
    art_sent            \* datagrams handed to the socket by this invocation

artVars == <<art_call, art_pc, art_zs, art_out_z, art_universe, art_bytes, art_layer_base,
             art_sent>>

\* LED feedback of the mapping engine (main.rs)
VARIABLES
    led_queue,          \* requests in the mpsc channel led_tx -> led_rx
    led_pc,             \* position of led_update_loop
    led_req,            \* request taken by the latest recv, <<>> before the first
    led_grid,           \* LedState.grid
    led_lfo_banks,      \* LedState.lfo_banks
    led_effect_banks,   \* LedState.effect_banks
    led_out             \* <<note, velocity>> handed to conn.send by the latest refresh function

ledVars == <<led_queue, led_pc, led_req, led_grid, led_lfo_banks, led_effect_banks, led_out>>

\* The four RwLocks of AppState and the tasks that take them (main.rs)
VARIABLES
    lk_readers,         \* per lock: the tasks holding a read guard
    lk_writer,          \* per lock: the task holding the write guard, "none" if free
    lk_pc,              \* per task: position
    lk_n,               \* per task: number of guards it holds
    lk_msg,             \* the MIDI message process_midi_messages is handling
    lk_snapshot,        \* what the sender read under its guards in this tick
    lk_committed        \* the matrices as the latest completed MIDI event left them

lockVars == <<lk_readers, lk_writer, lk_pc, lk_n, lk_msg, lk_snapshot, lk_committed>>

\* Concurrent display calls on one ControllerState (control_port.rs)
VARIABLES
    cm_front,           \* front_buffer
    cm_back,            \* back_buffer
    cm_locks,           \* the RwLocks of front_buffer and back_buffer: guards held, requests waiting
    cm_pc,              \* per caller: position in its call
    cm_calls,           \* per caller: calls started
    cm_op,              \* arguments of the write_display / clear_display call in progress
    cm_msgs,            \* per caller: messages it has still to send
    cm_queue            \* messages sent on message_tx, in order

cmtVars == <<cm_front, cm_back, cm_locks, cm_pc, cm_calls, cm_op, cm_msgs, cm_queue>>

\* Throughput statistics of one ControllerState (control_port.rs); times in ms
VARIABLES
    thr_now,                    \* the wall clock
    thr_bytes_sent,             \* bytes_sent
    thr_bytes_received,         \* bytes_received
    thr_last_bytes_sent,        \* last_bytes_sent
    thr_last_bytes_received,    \* last_bytes_received
    thr_last_update,            \* stats.last_throughput_update, None before the first read
    thr_sent_bps,               \* stats.throughput_sent_bps, in bytes per 1000 s
    thr_received_bps,           \* stats.throughput_received_bps, in bytes per 1000 s
    thr_stored_at,              \* time of the read that stored last_bytes_*, None before the first
    thr_sample                  \* what the latest update_throughput did

thrVars == <<thr_now, thr_bytes_sent, thr_bytes_received, thr_last_bytes_sent,
             thr_last_bytes_received, thr_last_update, thr_sent_bps, thr_received_bps,
             thr_stored_at, thr_sample>>

\* One Raster (artnet/lib.rs)
VARIABLES
    ras_pc,             \* "none" before Raster::new, then "live", "panicked" after a fault
    ras_width,          \* width
    ras_height,         \* height
    ras_length,         \* length
    ras_transform,      \* transform: (axis, sign) per output coordinate
    ras_data,           \* data, by index from 0
    ras_ops,            \* set_pix / get_pix calls made
    ras_result          \* the latest call and what it returned

rasVars == <<ras_pc, ras_width, ras_height, ras_length, ras_transform, ras_data, ras_ops,
             ras_result>>

\* One ControlPortManager and its web monitor (control_port.rs, web_monitor.rs)
VARIABLES
    mgr_pc,             \* "new", "initializing", "ready", "shutdown"
    mgr_ports,          \* keys of ControlPortManager.control_ports
    web_ports,          \* keys of control_ports of the manager held by the WebMonitor
    web_started,        \* start_web_monitor has been called
    web_response        \* the latest HTTP response

webVars == <<mgr_pc, mgr_ports, web_ports, web_started, web_response>>

coreVars == <<mapVars, monVars, dispVars, diffVars, portVars, callVars, beatVars, shutVars,
              btnVars, artVars, ledVars, lockVars>>
extVars == <<cmtVars, thrVars, rasVars, webVars>>

vars == <<mapVars, monVars, dispVars, diffVars, portVars, callVars, beatVars, shutVars,
          btnVars, artVars, ledVars, lockVars, extVars>>

\* What the actions of one subsystem leave alone.
MapFrame == UNCHANGED <<monVars, dispVars, diffVars, portVars, callVars, beatVars, shutVars,
                        btnVars, artVars, ledVars, lockVars, extVars>>
MonFrame == UNCHANGED <<mapVars, dispVars, diffVars, portVars, callVars, beatVars, shutVars,
                        btnVars, artVars, ledVars, lockVars, extVars>>
DiffFrame == UNCHANGED <<mapVars, monVars, portVars, callVars, beatVars, shutVars,
                        btnVars, artVars, ledVars, lockVars, extVars>>
PortFrame == UNCHANGED <<mapVars, monVars, diffVars, callVars, beatVars, shutVars,
                        btnVars, artVars, ledVars, lockVars, extVars>>
CallFrame == UNCHANGED <<mapVars, monVars, portVars, lcd, applied, diff_pc, beatVars, shutVars,
                        btnVars, artVars, ledVars, lockVars, extVars>>
BeatFrame == UNCHANGED <<mapVars, monVars, dispVars, diffVars, portVars, callVars, shutVars,
                        btnVars, artVars, ledVars, lockVars, extVars>>
ShutFrame == UNCHANGED <<mapVars, monVars, diffVars, callVars, beatVars, artVars, ledVars, lockVars, extVars>>
BtnFrame == UNCHANGED <<mapVars, monVars, dispVars, diffVars, portVars, callVars, beatVars,
                        shutdown_done, port_connected, artVars, ledVars, lockVars, extVars>>
ArtFrame == UNCHANGED <<mapVars, monVars, dispVars, diffVars, portVars, callVars, beatVars,
                        shutVars, btnVars, ledVars, lockVars, extVars>>
LedFrame == UNCHANGED <<monVars, dispVars, diffVars, portVars, callVars, beatVars, shutVars,
                        btnVars, artVars, lockVars, extVars>>
LockFrame == UNCHANGED <<monVars, dispVars, diffVars, portVars, callVars, beatVars, shutVars,
                         btnVars, artVars, ledVars, extVars>>
CmtFrame == UNCHANGED <<coreVars, thrVars, rasVars, webVars>>
ThrFrame == UNCHANGED <<coreVars, cmtVars, rasVars, webVars>>
RasFrame == UNCHANGED <<coreVars, cmtVars, thrVars, webVars>>
WebFrame == UNCHANGED <<coreVars, cmtVars, thrVars, rasVars>>

(***************************************************************************)
(* ======================  MAPPING ENGINE (main.rs)  ===================== *)
(***************************************************************************)

\* main.rs:16-21
NUM_ROWS == 8
NUM_COLS == 8
NUM_LFO_BANKS == 4
NUM_EFFECT_BANKS == 4
TOTAL_ROWS == NUM_ROWS * NUM_LFO_BANKS
TOTAL_COLS == NUM_COLS * NUM_EFFECT_BANKS

Rows == 0 .. (TOTAL_ROWS - 1)
Cols == 0 .. (TOTAL_COLS - 1)
LfoBanks == 0 .. (NUM_LFO_BANKS - 1)
EffectBanks == 0 .. (NUM_EFFECT_BANKS - 1)

\* f32 values are modelled as fixed-point integers in units of 2^-24, the
\* spacing of f32 in [0.5, 1).  f32::EPSILON = 2^-23 is then 2 units.
F32_ONE == 2 ^ 24
F32_EPSILON == 2
F32_QUARTER == F32_ONE \div 4

Abs(v) == IF v < 0 THEN 0 - v ELSE v

\* main.rs:559  cc_value as f32 / 127.0
CcToFloat(cc_value) == (cc_value * F32_ONE) \div 127

\* main.rs:34-43  NOTE_GRID[r][c] = (NUM_ROWS - 1 - r) * 8 + c
NOTE_GRID(r, c) == (NUM_ROWS - 1 - r) * 8 + c

\* Bound of the explored behaviours.
MaxEvents == 4       \* OSC and MIDI input events per behaviour

\* MIDI messages <<status, data1, data2>> that the input callback delivers:
\* grid presses at visible (0,0) and (1,0), LFO bank buttons 0 and 1, effect
\* bank button 1, and fader 0 (CC 48) at two positions.
MidiInputs ==
    {<<144, NOTE_GRID(0, 0), 127>>, <<144, NOTE_GRID(1, 0), 127>>,
     <<144, 82, 127>>, <<144, 83, 127>>, <<144, 87, 127>>,
     <<176, 48, 64>>, <<176, 48, 127>>}

\* OSC "/lfo/<n>" messages <<n, value>>: 0.25 and the next value above it
\* that is closer than f32::EPSILON.
OscInputs == {<<1, F32_QUARTER>>, <<1, F32_QUARTER + 1>>}

\* main.rs:155-168  AppState::new, and the locals of osc_sender_loop (642)
InitMap ==
    /\ current_lfo_bank = 0
    /\ current_effect_bank = 0
    /\ mapping = {}
    /\ fader_override_active = {}
    /\ fader_override_value = [b \in LfoBanks |-> [c \in Cols |-> 0]]
    /\ latest_lfo_values = [r \in Rows |-> 0]
    /\ last_midi = <<>>
    /\ events = 0
    /\ osc_sent_values = [c \in Cols |-> 0 - F32_ONE]
    /\ next_osc_values_to_send = [c \in Cols |-> 0 - F32_ONE]
    /\ sender_pc = "tick"
    /\ bundle = <<>>
    /\ send_result = "none"

\* main.rs:253-284  process_osc_message for "/lfo/<n>" with a float argument
ProcessOscMessage(lfo_source_on_grid, value) ==
    /\ events < MaxEvents
    /\ events' = events + 1
    /\ IF lfo_source_on_grid >= 1 /\ lfo_source_on_grid <= NUM_ROWS
       THEN LET actual_lfo_idx == current_lfo_bank * NUM_ROWS + (lfo_source_on_grid - 1)
            IN  IF actual_lfo_idx < TOTAL_ROWS
                THEN latest_lfo_values' = [latest_lfo_values EXCEPT ![actual_lfo_idx] = value]
                ELSE UNCHANGED latest_lfo_values
       ELSE UNCHANGED latest_lfo_values
    /\ UNCHANGED <<current_lfo_bank, current_effect_bank, mapping, fader_override_active,
                   fader_override_value, last_midi, osc_sent_values,
                   next_osc_values_to_send, sender_pc, bundle, send_result>>
    /\ MapFrame

\* main.rs:480-491  search NOTE_GRID for the pressed note; <<>> when not found
FindGridNote(note) ==
    LET hits == {rc \in (0 .. (NUM_ROWS - 1)) \X (0 .. (NUM_COLS - 1)) :
                    NOTE_GRID(rc[1], rc[2]) = note}
    IN  IF hits = {} THEN <<>> ELSE CHOOSE rc \in hits : TRUE

\* main.rs:512-531  toggle with mutual exclusivity inside the current LFO bank
GridPressMapping_NoMutex(m, lfo_bank, actual_r, actual_c) ==
    IF <<actual_r, actual_c>> \in m
    THEN m \ {<<actual_r, actual_c>>}
    ELSE m \cup {<<actual_r, actual_c>>}

GridPressMapping_AllBanks(m, lfo_bank, actual_r, actual_c) ==
    IF <<actual_r, actual_c>> \in m
    THEN m \ {<<actual_r, actual_c>>}
    ELSE (m \ {rc \in m : rc[2] = actual_c}) \cup {<<actual_r, actual_c>>}

GridPressMapping(m, lfo_bank, actual_r, actual_c) ==
    IF <<actual_r, actual_c>> \in m
    THEN m \ {<<actual_r, actual_c>>}
    ELSE LET others == {<<lfo_bank * NUM_ROWS + r_iter_vis, actual_c>> :
                            r_iter_vis \in 0 .. (NUM_ROWS - 1)}
         IN  (m \ {rc \in others : rc[1] # actual_r /\ rc[1] < TOTAL_ROWS})
                \cup {<<actual_r, actual_c>>}

\* main.rs:506-510  a grid press releases the fader override of the current bank
GridPressFader_Keep(fa, lfo_bank, actual_c) == fa

GridPressFader(fa, lfo_bank, actual_c) ==
    fa \ {<<lfo_bank, actual_c>>}

\* main.rs:493-537  grid button branch
GridPress(r_pv, c_pv) ==
    LET actual_r_lfo_idx == current_lfo_bank * NUM_ROWS + r_pv
        actual_c_effect_idx == current_effect_bank * NUM_COLS + c_pv
    IN  IF actual_c_effect_idx < TOTAL_COLS /\ actual_r_lfo_idx < TOTAL_ROWS
        THEN /\ fader_override_active' =
                    GridPressFader(fader_override_active, current_lfo_bank, actual_c_effect_idx)
             /\ mapping' = GridPressMapping(mapping, current_lfo_bank,
                                            actual_r_lfo_idx, actual_c_effect_idx)
        ELSE UNCHANGED <<mapping, fader_override_active>>

\* main.rs:545-569  fader CC branch
FaderCC(cc_number, cc_value) ==
    LET col_index_on_grid == cc_number - 48
        actual_col_idx_fader == current_effect_bank * NUM_COLS + col_index_on_grid
    IN  IF actual_col_idx_fader < TOTAL_COLS
        THEN /\ fader_override_active' =
                    fader_override_active \cup {<<current_lfo_bank, actual_col_idx_fader>>}
             /\ fader_override_value' =
                    [fader_override_value EXCEPT
                        ![current_lfo_bank][actual_col_idx_fader] = CcToFloat(cc_value)]
        ELSE UNCHANGED <<fader_override_active, fader_override_value>>

\* main.rs:453-573  one iteration of process_midi_messages: what it does to
\* the banks and the matrices
MidiHandler(message_data) ==
    LET status == message_data[1]
        data1 == message_data[2]
        data2 == message_data[3]
        kind == (status \div 16) * 16
    IN  /\ events < MaxEvents
        /\ events' = events + 1
        /\ last_midi' = message_data
        /\ IF kind = 144 /\ data2 > 0 /\ data1 >= 82 /\ data1 <= 85
           THEN /\ current_lfo_bank' = data1 - 82
                /\ UNCHANGED <<current_effect_bank, mapping, fader_override_active,
                               fader_override_value>>
           ELSE IF kind = 144 /\ data2 > 0 /\ data1 >= 86 /\ data1 <= 89
           THEN /\ current_effect_bank' = data1 - 86
                /\ UNCHANGED <<current_lfo_bank, mapping, fader_override_active,
                               fader_override_value>>
           ELSE IF kind = 144 /\ data2 > 0 /\ FindGridNote(data1) # <<>>
           THEN /\ GridPress(FindGridNote(data1)[1], FindGridNote(data1)[2])
                /\ UNCHANGED <<current_lfo_bank, current_effect_bank, fader_override_value>>
           ELSE IF kind = 176 /\ data1 >= 48 /\ data1 <= 55
           THEN /\ FaderCC(data1, data2)
                /\ UNCHANGED <<current_lfo_bank, current_effect_bank, mapping>>
           ELSE UNCHANGED <<current_lfo_bank, current_effect_bank, mapping,
                            fader_override_active, fader_override_value>>
        /\ UNCHANGED <<latest_lfo_values, osc_sent_values, next_osc_values_to_send,
                       sender_pc, bundle, send_result>>
        /\ LedFrame

\* main.rs:453-573  the handler as the mapping engine sees it; the request it
\* leaves for the LED task is LedRequestFor below
ProcessMidiMessage(message_data) == MidiHandler(message_data) /\ UNCHANGED ledVars

\* main.rs:659-665  PRIORITY 1: the first LFO bank (from 0 upward) with an
\* active fader override drives the column; result <<found, value>>
FaderScan_Highest(b, c, fa, fv) ==
    LET act == {k \in LfoBanks : <<k, c>> \in fa}
    IN  IF act = {} THEN <<FALSE, 0>>
        ELSE LET k == CHOOSE k \in act : \A j \in act : j <= k IN <<TRUE, fv[k][c]>>

RECURSIVE FaderScan(_, _, _, _)
FaderScan(b, c, fa, fv) ==
    IF b >= NUM_LFO_BANKS THEN <<FALSE, 0>>
    ELSE IF <<b, c>> \in fa THEN <<TRUE, fv[b][c]>>
    ELSE FaderScan(b + 1, c, fa, fv)

\* main.rs:671-683  PRIORITY 2: visible rows of the active LFO bank, from the
\* highest visual row downward; prev (the last sent value) when none is mapped
LfoScan_AllBanks(visual_row_idx_lfo, c, m, lfo, active_lfo_bank, prev) ==
    LET rows == {r \in Rows : <<r, c>> \in m}
    IN  IF rows = {} THEN prev
        ELSE lfo[CHOOSE r \in rows : \A q \in rows : q <= r]

RECURSIVE LfoScan(_, _, _, _, _, _)
LfoScan(visual_row_idx_lfo, c, m, lfo, active_lfo_bank, prev) ==
    IF visual_row_idx_lfo < 0 THEN prev
    ELSE LET actual_row_idx_lfo == active_lfo_bank * NUM_ROWS + visual_row_idx_lfo
         IN  IF actual_row_idx_lfo < TOTAL_ROWS /\ <<actual_row_idx_lfo, c>> \in m
             THEN lfo[actual_row_idx_lfo]
             ELSE LfoScan(visual_row_idx_lfo - 1, c, m, lfo, active_lfo_bank, prev)

\* main.rs:645-685  the values computed by one tick
ComputeOscValues(sent, m, fa, fv, lfo, active_lfo_bank) ==
    [c \in Cols |->
        LET f == FaderScan(0, c, fa, fv)
        IN  IF f[1] THEN f[2]
            ELSE LfoScan(NUM_ROWS - 1, c, m, lfo, active_lfo_bank, sent[c])]

\* main.rs:644-685  first half of a tick, under the four read locks
OscSenderCompute ==
    /\ sender_pc = "tick"
    /\ next_osc_values_to_send' =
          ComputeOscValues(osc_sent_values, mapping, fader_override_active,
                           fader_override_value, latest_lfo_values, current_lfo_bank)
    /\ sender_pc' = "send"
    /\ bundle' = <<>>
    /\ send_result' = "none"
    /\ UNCHANGED <<current_lfo_bank, current_effect_bank, mapping, fader_override_active,
                   fader_override_value, latest_lfo_values, last_midi, events,
                   osc_sent_values>>
    /\ MapFrame

\* main.rs:690-697  the messages of the bundle, one <<column, value>> per
\* column whose computed value differs from the last sent one by more than EPSILON
Changed_AnyDifference(nxt, sent, i) == nxt[i] # sent[i]

Changed(nxt, sent, i) == Abs(nxt[i] - sent[i]) > F32_EPSILON

RECURSIVE MessagesForBundle(_, _, _)
MessagesForBundle(i, nxt, sent) ==
    IF i >= TOTAL_COLS THEN <<>>
    ELSE IF Changed(nxt, sent, i)
         THEN <<<<i, nxt[i]>>>> \o MessagesForBundle(i + 1, nxt, sent)
         ELSE MessagesForBundle(i + 1, nxt, sent)

\* main.rs:711-713  the last-sent values after a successful send
SentAfterSend(sent, msgs) ==
    [c \in Cols |->
        IF \E k \in 1 .. Len(msgs) : msgs[k][1] = c
        THEN (msgs[CHOOSE k \in 1 .. Len(msgs) : msgs[k][1] = c])[2]
        ELSE sent[c]]

\* main.rs:687-721  second half of a tick: build the bundle and send it
OscSenderSend ==
    /\ sender_pc = "send"
    /\ LET msgs == MessagesForBundle(0, next_osc_values_to_send, osc_sent_values)
       IN  /\ bundle' = msgs
           /\ IF msgs = <<>>
              THEN /\ send_result' = "none"
                   /\ UNCHANGED osc_sent_values
              ELSE \/ /\ send_result' = "ok"
                      /\ osc_sent_values' = SentAfterSend(osc_sent_values, msgs)
                   \/ /\ send_result' = "err"
                      /\ UNCHANGED osc_sent_values
    /\ sender_pc' = "tick"
    /\ next_osc_values_to_send' = osc_sent_values'    \* 645: cloned for the next tick
    /\ UNCHANGED <<current_lfo_bank, current_effect_bank, mapping, fader_override_active,
                   fader_override_value, latest_lfo_values, last_midi, events>>
    /\ MapFrame

OscInput == \E in \in OscInputs : ProcessOscMessage(in[1], in[2])
MidiInput == \E m \in MidiInputs : ProcessMidiMessage(m)

NextMap ==
    \/ OscInput
    \/ MidiInput
    \/ OscSenderCompute
    \/ OscSenderSend

(***************************************************************************)
(* ==============  SENDER MONITOR (sender_monitor.rs)  =================== *)
(***************************************************************************)

\* sender_monitor.rs:106  Duration::seconds(30)
DEFAULT_COOLDOWN == 30

\* Bounds: the clock advances in steps of TimeStep seconds up to MaxTime.
TimeStep == 10
MaxTime == 40
MaxFailures == 2

NoTime == 0 - 1      \* Option::None of a timestamp

\* "ip:port" keys used by the callers; only the first is ever registered.
MonKeys == {"10.0.0.1:6454", "10.0.0.2:6454"}
RegisterKeys == {"10.0.0.1:6454"}
\* arguments of set_cooldown_duration
CooldownChoices == {0, 10}

NoControllers == [k \in {} |-> TRUE]

\* sender_monitor.rs:95-117  SenderMonitor::new
InitMon ==
    /\ controllers = NoControllers
    /\ cooldown_duration = DEFAULT_COOLDOWN
    /\ now = 0
    /\ stats_pc = "idle"
    /\ stats_now = NoTime
    /\ stats_snapshot = [time |-> 0, controllers |-> NoControllers]

\* sender_monitor.rs:130-140  the record that register_controller inserts
RegisteredStatus(t) ==
    [is_routable |-> TRUE, is_connecting |-> FALSE, last_success |-> t,
     last_failure |-> NoTime, failure_count |-> 0, last_error |-> "",
     cooldown_until |-> NoTime]

\* sender_monitor.rs:149-165  the record after report_controller_success
SuccessStatus_IgnoreCooldown(status, t) ==
    [status EXCEPT !.last_success = t, !.is_routable = TRUE, !.is_connecting = FALSE,
                   !.last_error = "", !.cooldown_until = NoTime]

SuccessStatus(status, t) ==
    IF status.cooldown_until # NoTime /\ t < status.cooldown_until
    THEN [status EXCEPT !.last_success = t]
    ELSE [status EXCEPT !.last_success = t, !.is_routable = TRUE, !.is_connecting = FALSE,
                        !.last_error = "", !.cooldown_until = NoTime]

FailureStatus_KeepCooldown(status, t, cooldown) ==
    [status EXCEPT !.is_routable = FALSE, !.is_connecting = TRUE, !.last_failure = t,
                   !.failure_count = status.failure_count + 1, !.last_error = "refused",
                   !.cooldown_until = IF status.cooldown_until # NoTime
                                      THEN status.cooldown_until ELSE t + cooldown]

\* sender_monitor.rs:172-181  the record after report_controller_failure
FailureStatus(status, t, cooldown) ==
    [status EXCEPT !.is_routable = FALSE, !.is_connecting = TRUE, !.last_failure = t,
                   !.failure_count = status.failure_count + 1, !.last_error = "refused",
                   !.cooldown_until = t + cooldown]

PromotedStatus_KeepCooldown(status, t) ==
    IF status.cooldown_until # NoTime /\ t >= status.cooldown_until /\ status.is_connecting
    THEN [status EXCEPT !.is_routable = TRUE, !.is_connecting = FALSE]
    ELSE status

\* sender_monitor.rs:213-221  the record after update_controller_statuses
PromotedStatus(status, t) ==
    IF status.cooldown_until # NoTime /\ t >= status.cooldown_until /\ status.is_connecting
    THEN [status EXCEPT !.is_routable = TRUE, !.is_connecting = FALSE,
                        !.cooldown_until = NoTime]
    ELSE status

\* sender_monitor.rs:129-144
RegisterController(key) ==
    /\ controllers' = [k \in DOMAIN controllers \cup {key} |->
                          IF k = key THEN RegisteredStatus(now) ELSE controllers[k]]
    /\ UNCHANGED <<cooldown_duration, now, stats_pc, stats_now, stats_snapshot>>
    /\ MonFrame

\* sender_monitor.rs:146-167
ReportControllerSuccess(key) ==
    /\ IF key \in DOMAIN controllers
       THEN controllers' = [controllers EXCEPT ![key] = SuccessStatus(controllers[key], now)]
       ELSE UNCHANGED controllers
    /\ UNCHANGED <<cooldown_duration, now, stats_pc, stats_now, stats_snapshot>>
    /\ MonFrame

\* sender_monitor.rs:169-183
ReportControllerFailure(key) ==
    /\ key \in DOMAIN controllers => controllers[key].failure_count < MaxFailures
    /\ IF key \in DOMAIN controllers
       THEN controllers' = [controllers EXCEPT
                               ![key] = FailureStatus(controllers[key], now, cooldown_duration)]
       ELSE UNCHANGED controllers
    /\ UNCHANGED <<cooldown_duration, now, stats_pc, stats_now, stats_snapshot>>
    /\ MonFrame

\* sender_monitor.rs:124-127
SetCooldownDuration(cooldown_seconds) ==
    /\ cooldown_duration' = cooldown_seconds
    /\ UNCHANGED <<controllers, now, stats_pc, stats_now, stats_snapshot>>
    /\ MonFrame

\* sender_monitor.rs:208-223
UpdateControllerStatuses(cs, t) == [k \in DOMAIN cs |-> PromotedStatus(cs[k], t)]

\* sender_monitor.rs:225-227  get_stats, first pass: update_controller_statuses
\* samples the clock and promotes, entry by entry under the map's locks.
GetStatsUpdate ==
    /\ stats_pc = "idle"
    /\ controllers' = UpdateControllerStatuses(controllers, now)
    /\ stats_pc' = "collect"
    /\ stats_now' = now
    /\ UNCHANGED <<cooldown_duration, now, stats_snapshot>>
    /\ MonFrame

\* sender_monitor.rs:229-243  get_stats, second pass: clone the entries and
\* return them.  The reports of other tasks run between the two passes.
GetStatsCollect ==
    /\ stats_pc = "collect"
    /\ stats_snapshot' = [time |-> stats_now, controllers |-> controllers]
    /\ stats_pc' = "idle"
    /\ stats_now' = NoTime
    /\ UNCHANGED <<controllers, cooldown_duration, now>>
    /\ MonFrame

\* the wall clock
AdvanceTime ==
    /\ now + TimeStep <= MaxTime
    /\ now' = now + TimeStep
    /\ UNCHANGED <<controllers, cooldown_duration, stats_pc, stats_now, stats_snapshot>>
    /\ MonFrame

Register == \E key \in RegisterKeys : RegisterController(key)
ReportSuccess == \E key \in MonKeys : ReportControllerSuccess(key)
ReportFailure == \E key \in MonKeys : ReportControllerFailure(key)
SetCooldown == \E d \in CooldownChoices : SetCooldownDuration(d)

NextMon ==
    \/ Register
    \/ ReportSuccess
    \/ ReportFailure
    \/ SetCooldown
    \/ GetStatsUpdate
    \/ GetStatsCollect
    \/ AdvanceTime

(***************************************************************************)
(* ============  CONTROL-PORT DISPLAY (control_port.rs)  ================= *)
(***************************************************************************)

\* control_port.rs:257-258
DISPLAY_WIDTH == 20
DISPLAY_HEIGHT == 4

XS == 0 .. (DISPLAY_WIDTH - 1)
YS == 0 .. (DISPLAY_HEIGHT - 1)

None == 0 - 1        \* Option::None of an index

Min(a, b) == IF a < b THEN a ELSE b

\* control_port.rs:259-260  vec![vec![' '; width]; height]
BlankRow == [x \in XS |-> " "]
BlankBuffer == [y \in YS |-> BlankRow]

\* control_port.rs:95-98  OutgoingMessage
Noop == [kind |-> "Noop", x |-> 0, y |-> 0, text |-> <<>>]
LcdClear == [kind |-> "LcdClear", x |-> 0, y |-> 0, text |-> <<>>]
LcdWrite(x, y, text) == [kind |-> "LcdWrite", x |-> x, y |-> y, text |-> text]

\* control_port.rs:408-415
ClearDisplay(back) == BlankBuffer

\* control_port.rs:417-434
WriteDisplay_FillRow(back, x, y, text) ==
    IF y >= DISPLAY_HEIGHT \/ x >= DISPLAY_WIDTH
    THEN back
    ELSE [back EXCEPT ![y] = [c \in XS |->
            IF c >= x /\ c - x < Len(text) THEN text[c - x + 1]
            ELSE IF c >= x THEN " " ELSE back[y][c]]]

WriteDisplay(back, x, y, text) ==
    IF y >= DISPLAY_HEIGHT \/ x >= DISPLAY_WIDTH
    THEN back
    ELSE [back EXCEPT ![y] = [c \in XS |->
            IF c >= x /\ c - x < Len(text) THEN text[c - x + 1] ELSE back[y][c]]]

\* control_port.rs:501  the end of a change extended to cover column x
MergedEnd_Short(x) == x

MergedEnd(x) == Min(x + 1, DISPLAY_WIDTH)

\* control_port.rs:498-499  distance <= 3
WithinMergeDistance_Never(distance) == FALSE

WithinMergeDistance_Four(distance) == distance <= 4

WithinMergeDistance_Two(distance) == distance <= 2

WithinMergeDistance(distance) == distance <= 3

\* control_port.rs:493-520  the loop of find_contiguous_changes from column x
\* on, with its locals changes, start and last_change_end
RECURSIVE ContiguousChangesFrom(_, _, _, _, _, _, _)
ContiguousChangesFrom(x, changes, start, last_change_end, front, back, y) ==
    IF x = DISPLAY_WIDTH
    THEN IF start # None THEN Append(changes, <<start, DISPLAY_WIDTH>>) ELSE changes
    ELSE IF front[y][x] # back[y][x]
    THEN IF start = None
         THEN IF last_change_end # None /\ WithinMergeDistance(x - last_change_end)
                 /\ changes # <<>>
              THEN ContiguousChangesFrom(x + 1,
                        [changes EXCEPT ![Len(changes)] = <<changes[Len(changes)][1], MergedEnd(x)>>],
                        None, MergedEnd(x), front, back, y)
              ELSE ContiguousChangesFrom(x + 1, changes, x, last_change_end, front, back, y)
         ELSE ContiguousChangesFrom(x + 1, changes, start, last_change_end, front, back, y)
    ELSE IF start # None
         THEN ContiguousChangesFrom(x + 1, Append(changes, <<start, x>>), None, x, front, back, y)
         ELSE ContiguousChangesFrom(x + 1, changes, start, last_change_end, front, back, y)

\* control_port.rs:483-521
FindContiguousChanges(front, back, y) ==
    ContiguousChangesFrom(0, <<>>, None, None, front, back, y)

\* control_port.rs:442-444
AllSpaces(back) == \A y \in YS : \A x \in XS : back[y][x] = " "

\* control_port.rs:462  back_buffer[y][start..end]
RowSlice(row, start, end) == [k \in 1 .. (end - start) |-> row[start + k - 1]]

\* control_port.rs:459-469  the messages of rows y .. height-1
RECURSIVE RowMessagesFrom(_, _, _)
RowMessagesFrom(y, front, back) ==
    IF y = DISPLAY_HEIGHT THEN <<>>
    ELSE LET changes == FindContiguousChanges(front, back, y)
         IN  [k \in 1 .. Len(changes) |->
                 LcdWrite(changes[k][1], y, RowSlice(back[y], changes[k][1], changes[k][2]))]
             \o RowMessagesFrom(y + 1, front, back)

\* control_port.rs:436-481  the messages commit_display returns
CommitMessages_NoShortcut(front, back) == RowMessagesFrom(0, front, back)

CommitMessages(front, back) ==
    IF AllSpaces(back) THEN <<LcdClear>> ELSE RowMessagesFrom(0, front, back)

\* control_port.rs:446-455, 471-478  the front buffer commit_display leaves
CommitFront_Keep(front, back) == front

CommitFront(front, back) ==
    IF AllSpaces(back) THEN BlankBuffer ELSE back

\* The device: LcdClear blanks all cells, LcdWrite(x, y, text) overwrites row y
\* from column x (control_port.rs:107-110 is what it is sent).
ApplyMessage(shown, m) ==
    IF m.kind = "LcdClear" THEN BlankBuffer
    ELSE IF m.kind = "LcdWrite" THEN WriteDisplay(shown, m.x, m.y, m.text)
    ELSE shown

\* Buffer contents that commit_display is applied to: row 0 holds "A" at any
\* subset of DiffCols, row 3 is blank or ends in "B".
DiffCols == {0, 2, 4, 9, 10, 19}
DiffRows0 == {[x \in XS |-> IF x \in S THEN "A" ELSE " "] : S \in SUBSET DiffCols}
DiffRows3 == {BlankRow, [x \in XS |-> IF x = DISPLAY_WIDTH - 1 THEN "B" ELSE " "]}
DiffBuffers ==
    {[y \in YS |-> IF y = 0 THEN r0 ELSE IF y = 3 THEN r3 ELSE BlankRow] :
        r0 \in DiffRows0, r3 \in DiffRows3}

\* control_port.rs:1552-1580  a controller state whose buffers hold any of
\* DiffBuffers, and a display that shows front_buffer
InitDisplay ==
    /\ front_buffer = BlankBuffer
    /\ back_buffer = BlankBuffer
    /\ lcd = BlankBuffer
    /\ commit_result = <<>>
    /\ applied = 0
    /\ diff_pc = "returned"

\* control_port.rs:436-481  ControllerState::commit_display
CommitDisplay ==
    /\ diff_pc = "commit"
    /\ commit_result' = CommitMessages(front_buffer, back_buffer)
    /\ front_buffer' = CommitFront(front_buffer, back_buffer)
    /\ diff_pc' = "returned"
    /\ UNCHANGED <<back_buffer, lcd, applied>>
    /\ DiffFrame

\* The display takes the next of the returned messages.
DisplayApply ==
    /\ diff_pc = "returned"
    /\ applied < Len(commit_result)
    /\ lcd' = ApplyMessage(lcd, commit_result[applied + 1])
    /\ applied' = applied + 1
    /\ UNCHANGED <<front_buffer, back_buffer, commit_result, diff_pc>>
    /\ DiffFrame

NextDiff ==
    \/ CommitDisplay
    \/ DisplayApply

\* Bound: display calls made on the controller state.
MaxOps == 4

\* Arguments of write_display: in range, truncated at the last column, out of
\* range in x and in y, empty, and texts with spaces at the start, at the end
\* and inside (runs of 3 and of 4).
DisplayWrites ==
    { <<0, 1, <<"A">>>>,
      <<18, 0, <<"A", "B">>>>,
      <<18, 1, <<"A", "B", "C">>>>,
      <<DISPLAY_WIDTH, 1, <<"A">>>>,
      <<0, DISPLAY_HEIGHT, <<"A">>>>,
      <<0, 1, <<>>>>,
      <<5, 1, <<" ", " ">>>>,
      <<0, 1, <<" ", "B">>>>,
      <<2, 1, <<"B", " ">>>>,
      <<0, 1, <<"A", " ", " ", " ", "B">>>>,
      <<0, 1, <<"A", " ", " ", " ", " ", "B">>>> }

NoOp == [kind |-> "none", x |-> 0, y |-> 0, text |-> <<>>]

\* control_port.rs:231-289  no display call has been made
InitCall ==
    /\ op_count = 0
    /\ last_op = NoOp

\* control_port.rs:417-434  ControllerState::write_display
WriteDisplayCall(x, y, text) ==
    /\ op_count < MaxOps
    /\ op_count' = op_count + 1
    /\ back_buffer' = WriteDisplay(back_buffer, x, y, text)
    /\ last_op' = [kind |-> "write", x |-> x, y |-> y, text |-> text]
    /\ UNCHANGED <<front_buffer, commit_result>>
    /\ CallFrame

\* control_port.rs:408-415  ControllerState::clear_display
ClearDisplayCall ==
    /\ op_count < MaxOps
    /\ op_count' = op_count + 1
    /\ back_buffer' = ClearDisplay(back_buffer)
    /\ last_op' = [NoOp EXCEPT !.kind = "clear"]
    /\ UNCHANGED <<front_buffer, commit_result>>
    /\ CallFrame

\* control_port.rs:436-481  ControllerState::commit_display
CommitDisplayCall ==
    /\ op_count < MaxOps
    /\ op_count' = op_count + 1
    /\ commit_result' = CommitMessages(front_buffer, back_buffer)
    /\ front_buffer' = CommitFront(front_buffer, back_buffer)
    /\ last_op' = [NoOp EXCEPT !.kind = "commit"]
    /\ UNCHANGED back_buffer
    /\ CallFrame

WriteCall == \E in \in DisplayWrites : WriteDisplayCall(in[1], in[2], in[3])

NextCall ==
    \/ WriteCall
    \/ ClearDisplayCall
    \/ CommitDisplayCall

(***************************************************************************)
(* ===========  CONTROL-PORT CONNECTION (control_port.rs)  =============== *)
(***************************************************************************)

\* Bounds: TCP connections established, messages enqueued.
MaxConn == 2
MaxMsgs == 3

Conns == 1 .. MaxConn     \* connection k is the k-th established TCP stream
Chans == 0 .. MaxConn     \* channel 0 is made by ControllerState::new, channel k for connection k

\* arguments of write_display
WriteInputs == {<<0, 0, <<"A">>>>}

\* control_port.rs:231-289  ControllerState::new, and the start of run_controller_task
InitPort ==
    /\ connected = FALSE
    /\ sup_pc = "initial"
    /\ conn_count = 0
    /\ tx_chan = 0
    /\ rx_slot = 0
    /\ chan_queue = [c \in Chans |-> <<>>]
    /\ enqueued = [c \in Chans |-> <<>>]
    /\ msg_seq = 0
    /\ io_pc = [k \in Conns |-> "none"]
    /\ io_chan = [k \in Conns |-> None]
    /\ wire = [k \in Conns |-> <<>>]
    /\ refresh_pc = [k \in Conns |-> "none"]

\* The receiver of channel c exists: it is in message_rx, or a handle_connection
\* task that has not returned holds it.
RxAlive(c) ==
    \/ rx_slot = c
    \/ \E k \in Conns : io_chan[k] = c /\ io_pc[k] \in {"loop", "exited"}

\* mpsc::UnboundedSender::send: the messages go to the back of the queue
ChannelPush_Front(queue, entries) == entries \o queue

ChannelPush(queue, entries) == queue \o entries

\* control_port.rs:523-535  send_message for each of msgs in turn: on the channel
\* of message_tx, an error when its receiver is gone
SendMessages(msgs) ==
    /\ msg_seq + Len(msgs) <= MaxMsgs
    /\ IF RxAlive(tx_chan) /\ msgs # <<>>
       THEN /\ chan_queue' = [chan_queue EXCEPT ![tx_chan] =
                    ChannelPush(@, [i \in 1 .. Len(msgs) |-> <<msg_seq + i, msgs[i]>>])]
            /\ enqueued' = [enqueued EXCEPT ![tx_chan] =
                    @ \o [i \in 1 .. Len(msgs) |-> <<msg_seq + i, connected>>]]
            /\ msg_seq' = msg_seq + Len(msgs)
       ELSE UNCHANGED <<chan_queue, enqueued, msg_seq>>

\* control_port.rs:908-909  the reconnect tick attempts when not connected
ShouldAttempt_Always(is_connected) == TRUE

ShouldAttempt_Never(is_connected) == FALSE

ShouldAttempt(is_connected) == ~is_connected

\* control_port.rs:889, 907-921, 942-975  attempt_connection up to the point
\* where the stream is established and connected is set
AttemptConnection(ok) ==
    /\ sup_pc = "initial" \/ (sup_pc = "idle" /\ ShouldAttempt(connected))
    /\ IF ok
       THEN /\ conn_count < MaxConn
            /\ conn_count' = conn_count + 1
            /\ connected' = TRUE
            /\ sup_pc' = "new_rx"
       ELSE /\ sup_pc' = "idle"
            /\ UNCHANGED <<conn_count, connected>>
    /\ UNCHANGED <<tx_chan, rx_slot, chan_queue, enqueued, msg_seq, io_pc, io_chan, wire,
                   refresh_pc, dispVars>>
    /\ PortFrame

\* control_port.rs:977-982  a new channel; its receiver replaces message_rx
ReplaceRx ==
    /\ sup_pc = "new_rx"
    /\ rx_slot' = conn_count
    /\ chan_queue' = IF rx_slot # None THEN [chan_queue EXCEPT ![rx_slot] = <<>>] ELSE chan_queue
    /\ sup_pc' = "new_tx"
    /\ UNCHANGED <<connected, conn_count, tx_chan, enqueued, msg_seq,
                   io_pc, io_chan, wire, refresh_pc, dispVars>>
    /\ PortFrame

\* control_port.rs:983-1019  its sender replaces message_tx; handle_connection
\* and the refresh task are spawned (no await between the two)
ReplaceTxAndSpawn ==
    /\ sup_pc = "new_tx"
    /\ tx_chan' = conn_count
    /\ io_pc' = [io_pc EXCEPT ![conn_count] = "spawned"]
    /\ refresh_pc' = [refresh_pc EXCEPT ![conn_count] = "sleeping"]
    /\ sup_pc' = "idle"
    /\ UNCHANGED <<connected, conn_count, rx_slot, chan_queue, enqueued,
                   msg_seq, io_chan, wire, dispVars>>
    /\ PortFrame

\* control_port.rs:923-933  the heartbeat tick
Heartbeat ==
    /\ sup_pc = "idle"
    /\ connected
    /\ SendMessages(<<Noop>>)
    /\ UNCHANGED <<connected, sup_pc, conn_count, tx_chan, rx_slot,
                   io_pc, io_chan, wire, refresh_pc, dispVars>>
    /\ PortFrame

\* control_port.rs:1022-1053  handle_connection takes the receiver out of message_rx
IoTakeReceiver(k) ==
    /\ io_pc[k] = "spawned"
    /\ IF rx_slot = None
       THEN /\ io_pc' = [io_pc EXCEPT ![k] = "done"]
            /\ UNCHANGED <<io_chan, rx_slot>>
       ELSE /\ io_chan' = [io_chan EXCEPT ![k] = rx_slot]
            /\ rx_slot' = None
            /\ io_pc' = [io_pc EXCEPT ![k] = "loop"]
    /\ UNCHANGED <<connected, sup_pc, conn_count, tx_chan, chan_queue,
                   enqueued, msg_seq, wire, refresh_pc, dispVars>>
    /\ PortFrame

\* control_port.rs:1088-1109  the loop receives a message and writes it to the
\* socket; a write error ends the loop
IoWrite(k, ok) ==
    /\ io_pc[k] = "loop"
    /\ chan_queue[io_chan[k]] # <<>>
    /\ chan_queue' = [chan_queue EXCEPT ![io_chan[k]] = Tail(@)]
    /\ IF ok
       THEN /\ wire' = [wire EXCEPT ![k] = Append(@, Head(chan_queue[io_chan[k]])[1])]
            /\ lcd' = ApplyMessage(lcd, Head(chan_queue[io_chan[k]])[2])
            /\ UNCHANGED io_pc
       ELSE /\ io_pc' = [io_pc EXCEPT ![k] = "exited"]
            /\ UNCHANGED <<wire, lcd>>
    /\ UNCHANGED <<connected, sup_pc, conn_count, tx_chan, rx_slot,
                   enqueued, msg_seq, io_chan, refresh_pc, front_buffer, back_buffer>>
    /\ PortFrame

\* control_port.rs:1059-1086  the read returns Ok(0) or an error: the loop ends
IoReadEnd(k) ==
    /\ io_pc[k] = "loop"
    /\ io_pc' = [io_pc EXCEPT ![k] = "exited"]
    /\ UNCHANGED <<connected, sup_pc, conn_count, tx_chan, rx_slot,
                   chan_queue, enqueued, msg_seq, io_chan, wire, refresh_pc, dispVars>>
    /\ PortFrame

\* control_port.rs:1113-1118  after the loop: connected = false, and the task
\* returns, which drops its receiver
IoMarkDisconnected(k) ==
    /\ io_pc[k] = "exited"
    /\ connected' = FALSE
    /\ io_pc' = [io_pc EXCEPT ![k] = "done"]
    /\ chan_queue' = [chan_queue EXCEPT ![io_chan[k]] = <<>>]
    /\ UNCHANGED <<sup_pc, conn_count, tx_chan, rx_slot, enqueued,
                   msg_seq, io_chan, wire, refresh_pc, dispVars>>
    /\ PortFrame

\* control_port.rs:545-561  the LcdWrite messages of rows y .. height-1: each
\* non-blank row from its first to its last non-space character
RECURSIVE RefreshRowsFrom(_, _)
RefreshRowsFrom(y, back) ==
    IF y = DISPLAY_HEIGHT THEN <<>>
    ELSE IF \A x \in XS : back[y][x] = " " THEN RefreshRowsFrom(y + 1, back)
    ELSE LET start == CHOOSE x \in XS :
                          back[y][x] # " " /\ \A x2 \in XS : x2 < x => back[y][x2] = " "
             last  == CHOOSE x \in XS :
                          back[y][x] # " " /\ \A x2 \in XS : x2 > x => back[y][x2] = " "
         IN  <<LcdWrite(start, y, RowSlice(back[y], start, last + 1))>>
             \o RefreshRowsFrom(y + 1, back)

\* control_port.rs:537-565  the messages force_display_refresh sends
RefreshMessages(back) == <<LcdClear>> \o RefreshRowsFrom(0, back)

\* control_port.rs:993-1017  the refresh task of connection k, after its sleep
ForceDisplayRefresh(k) ==
    /\ refresh_pc[k] = "sleeping"
    /\ SendMessages(RefreshMessages(back_buffer))
    /\ refresh_pc' = [refresh_pc EXCEPT ![k] = "done"]
    /\ UNCHANGED <<connected, sup_pc, conn_count, tx_chan, rx_slot,
                   io_pc, io_chan, wire, dispVars>>
    /\ PortFrame

\* control_port.rs:1270-1274  ControlPort::write_display
WriteDisplayOp(x, y, text) ==
    /\ back_buffer' = WriteDisplay(back_buffer, x, y, text)
    /\ back_buffer' # back_buffer
    /\ UNCHANGED <<front_buffer, lcd, portVars>>
    /\ PortFrame

\* control_port.rs:1264-1268  ControlPort::clear_display
ClearDisplayOp ==
    /\ back_buffer' = ClearDisplay(back_buffer)
    /\ back_buffer' # back_buffer
    /\ UNCHANGED <<front_buffer, lcd, portVars>>
    /\ PortFrame

\* control_port.rs:1276-1297  ControlPort::commit_display: the messages of
\* ControllerState::commit_display are sent one by one, errors are only logged
CommitDisplayOp ==
    /\ front_buffer' = CommitFront(front_buffer, back_buffer)
    /\ SendMessages(CommitMessages(front_buffer, back_buffer))
    /\ UNCHANGED <<back_buffer, lcd, connected, sup_pc, conn_count,
                   tx_chan, rx_slot, io_pc, io_chan, wire, refresh_pc>>
    /\ PortFrame

Attempt == \E ok \in BOOLEAN : AttemptConnection(ok)
IoTake == \E k \in Conns : IoTakeReceiver(k)
IoWriteStep == \E k \in Conns : \E ok \in BOOLEAN : IoWrite(k, ok)
IoRead == \E k \in Conns : IoReadEnd(k)
IoDisconnect == \E k \in Conns : IoMarkDisconnected(k)
Refresh == \E k \in Conns : ForceDisplayRefresh(k)
WriteOp == \E in \in WriteInputs : WriteDisplayOp(in[1], in[2], in[3])

NextPort ==
    \/ Attempt
    \/ ReplaceRx
    \/ ReplaceTxAndSpawn
    \/ Heartbeat
    \/ IoTake
    \/ IoWriteStep
    \/ IoRead
    \/ IoDisconnect
    \/ Refresh
    \/ WriteOp
    \/ ClearDisplayOp
    \/ CommitDisplayOp

(***************************************************************************)
(* ============  CONTROL-PORT SHUTDOWN (control_port.rs)  ================ *)
(***************************************************************************)

\* control_port.rs:752-879  ControlPort::new and start: state.connected is
\* false, the forwarding task and the supervisor are spawned
InitShut ==
    /\ shutdown_done = FALSE
    /\ port_connected = FALSE
    /\ fwd_pc = "spawned"

\* control_port.rs:818-820  the forwarding task subscribes to the controller's
\* button broadcast and enters its loop
FwdSubscribe ==
    /\ fwd_pc = "spawned"
    /\ fwd_pc' = "loop"
    /\ fwd_next' = Len(ctl_chan)
    /\ UNCHANGED <<btn_count, ctl_chan, fwd_got, fwd_lag_at, port_chan,
                   rcv_pc, rcv_next, rcv_got, rcv_since, rcv_lag_at>>
    /\ UNCHANGED <<shutdown_done, port_connected, portVars, dispVars>>
    /\ ShutFrame

\* control_port.rs:1203-1244  ControlPort::get_stats copies the controller's
\* connected flag into stats.connected and state.connected
GetPortStats ==
    /\ port_connected' = connected
    /\ UNCHANGED <<shutdown_done, fwd_pc, portVars, dispVars, btnVars>>
    /\ ShutFrame

\* control_port.rs:658-669, 1246-1261  ControlPortManager::shutdown: the signal
\* is broadcast, the supervisor (connection_task) and the forwarding task are
\* aborted, state.connected is set to false
ManagerShutdown ==
    /\ ~shutdown_done
    /\ shutdown_done' = TRUE
    /\ sup_pc' = "stopped"
    /\ fwd_pc' = "stopped"
    /\ port_connected' = FALSE
    /\ UNCHANGED <<connected, conn_count, tx_chan, rx_slot, chan_queue, enqueued,
                   msg_seq, io_pc, io_chan, wire, refresh_pc, dispVars, btnVars>>
    /\ ShutFrame

NextShut ==
    \/ NextPort
    \/ FwdSubscribe
    \/ GetPortStats
    \/ ManagerShutdown

(***************************************************************************)
(* ===========  CONTROL-PORT HEARTBEATS (control_port.rs)  =============== *)
(***************************************************************************)

\* Timestamps are counted in ticks; chrono's Duration::num_seconds() gives the
\* whole seconds of a duration, rounded toward zero.
TICKS_PER_SECOND == 2
NumSeconds(ticks) == ticks \div TICKS_PER_SECOND

\* Bound: the time that passes, in ticks.
MaxBeatTicks == 8

\* control_port.rs:337-354  a timestamp is stale when its age has more than 3
\* whole seconds
STALE_SECONDS == 3
Stale(t, last) == last # NoTime /\ NumSeconds(t - last) > STALE_SECONDS

NoBeatStats ==
    [time |-> 0, last_heartbeat_received |-> NoTime, heartbeat_received_active |-> FALSE,
     last_noop_sent |-> NoTime, noop_sent_active |-> FALSE, noop_enqueued |-> NoTime]

\* control_port.rs:231-289  ControllerState::new; ControllerStats::default
InitBeat ==
    /\ beat_now = 0
    /\ last_heartbeat_received = NoTime
    /\ heartbeat_received_active = FALSE
    /\ last_noop_sent = NoTime
    /\ noop_sent_active = FALSE
    /\ last_noop_enqueued = NoTime
    /\ beat_stats = NoBeatStats

\* Utc::now() moves on
BeatAdvanceTime ==
    /\ beat_now < MaxBeatTicks
    /\ beat_now' = beat_now + 1
    /\ UNCHANGED <<last_heartbeat_received, heartbeat_received_active, last_noop_sent,
                   noop_sent_active, last_noop_enqueued, beat_stats>>
    /\ BeatFrame

\* control_port.rs:523-535  send_message(Noop): the tracking is updated, then
\* the message is sent on the channel, which fails when its receiver is gone
SendNoop(receiver_alive) ==
    /\ last_noop_sent' = beat_now
    /\ noop_sent_active' = TRUE
    /\ last_noop_enqueued' = IF receiver_alive THEN beat_now ELSE last_noop_enqueued

\* control_port.rs:1137-1144  process_incoming_message for a heartbeat line;
\* it runs in the handle_connection task that holds the receiver
ReceiveHeartbeat ==
    /\ last_heartbeat_received' = beat_now
    /\ heartbeat_received_active' = TRUE
    /\ SendNoop(TRUE)
    /\ UNCHANGED <<beat_now, beat_stats>>
    /\ BeatFrame

\* control_port.rs:923-933  the supervisor's heartbeat tick; the connection's
\* task may have returned since `connected` was read
HeartbeatTick(receiver_alive) ==
    /\ SendNoop(receiver_alive)
    /\ UNCHANGED <<beat_now, last_heartbeat_received, heartbeat_received_active, beat_stats>>
    /\ BeatFrame

\* control_port.rs:1203-1244, 313-355  get_stats: update_stats clears the flags
\* whose timestamp is stale, and the stats are returned
GetBeatStats ==
    /\ heartbeat_received_active' =
          IF Stale(beat_now, last_heartbeat_received) THEN FALSE ELSE heartbeat_received_active
    /\ noop_sent_active' =
          IF Stale(beat_now, last_noop_sent) THEN FALSE ELSE noop_sent_active
    /\ beat_stats' =
          [time |-> beat_now,
           last_heartbeat_received |-> last_heartbeat_received,
           heartbeat_received_active |-> heartbeat_received_active',
           last_noop_sent |-> last_noop_sent,
           noop_sent_active |-> noop_sent_active',
           noop_enqueued |-> last_noop_enqueued]
    /\ UNCHANGED <<beat_now, last_heartbeat_received, last_noop_sent, last_noop_enqueued>>
    /\ BeatFrame

NoopTick == \E alive \in BOOLEAN : HeartbeatTick(alive)

NextBeat ==
    \/ BeatAdvanceTime
    \/ ReceiveHeartbeat
    \/ NoopTick
    \/ GetBeatStats

(***************************************************************************)
(* ==========  CONTROL-PORT BUTTON FAN-OUT (control_port.rs, lib.rs)  ==== *)
(***************************************************************************)

\* button lines parsed in one run
MaxButtons == 4

\* values a broadcast channel retains (control_port.rs:233, 758: 100)
BROADCAST_CAPACITY == 2

\* ButtonEventReceiver objects of one ControlPort
Receivers == {1, 2}

\* control_port.rs:231-289, 752-804  both channels are created empty and
\* without receivers; no callback is registered
InitBtn ==
    /\ btn_count = 0
    /\ ctl_chan = <<>>
    /\ fwd_next = 0
    /\ fwd_got = <<>>
    /\ fwd_lag_at = -1
    /\ port_chan = <<>>
    /\ rcv_pc = [s \in Receivers |-> "none"]
    /\ rcv_next = [s \in Receivers |-> 0]
    /\ rcv_got = [s \in Receivers |-> <<>>]
    /\ rcv_since = [s \in Receivers |-> 0]
    /\ rcv_lag_at = [s \in Receivers |-> -1]

\* tokio broadcast::Sender::send: the value is stored when the channel has a
\* receiver and dropped (Err) when it has none; it never waits
BroadcastSend(chan, value, has_receiver) ==
    IF has_receiver THEN Append(chan, value) ELSE chan

\* tokio broadcast::Receiver::recv found the value after position next
\* overwritten: more than BROADCAST_CAPACITY values were sent since
Lagged(chan, next) == Len(chan) - next > BROADCAST_CAPACITY

\* position of the oldest value the channel still holds, where recv leaves
\* the receiver after RecvError::Lagged
OldestRetained(chan) == Len(chan) - BROADCAST_CAPACITY

\* the forwarding task holds the only receiver of the controller's channel
ControllerHasReceiver == fwd_pc = "loop"

\* register_button_callback subscribed and the ButtonEventReceiver is alive
PortHasReceiver == \E s \in Receivers : rcv_pc[s] # "none"

\* control_port.rs:1167-1182  process_incoming_message, IncomingMessage::Button:
\* the vector is sent on the controller's channel, a failed send is printed
ButtonLine ==
    /\ btn_count < MaxButtons
    /\ btn_count' = btn_count + 1
    /\ ctl_chan' = BroadcastSend(ctl_chan, btn_count + 1, ControllerHasReceiver)
    /\ UNCHANGED <<fwd_next, fwd_got, fwd_lag_at, port_chan,
                   rcv_pc, rcv_next, rcv_got, rcv_since, rcv_lag_at, fwd_pc>>
    /\ BtnFrame

\* control_port.rs:822-840  forwarding task: recv returned Ok(buttons), which
\* is sent on the ControlPort's channel
FwdForward ==
    /\ fwd_pc = "loop"
    /\ fwd_next < Len(ctl_chan)
    /\ ~Lagged(ctl_chan, fwd_next)
    /\ fwd_next' = fwd_next + 1
    /\ fwd_got' = Append(fwd_got, ctl_chan[fwd_next + 1])
    /\ port_chan' = BroadcastSend(port_chan, ctl_chan[fwd_next + 1], PortHasReceiver)
    /\ UNCHANGED <<btn_count, ctl_chan, fwd_lag_at,
                   rcv_pc, rcv_next, rcv_got, rcv_since, rcv_lag_at, fwd_pc>>
    /\ BtnFrame

\* control_port.rs:842-848  forwarding task: recv returned Lagged(n); it is
\* printed and the loop continues
FwdLagged ==
    /\ fwd_pc = "loop"
    /\ Lagged(ctl_chan, fwd_next)
    /\ fwd_next' = OldestRetained(ctl_chan)
    /\ fwd_lag_at' = Len(ctl_chan)
    /\ UNCHANGED <<btn_count, ctl_chan, fwd_got, port_chan,
                   rcv_pc, rcv_next, rcv_got, rcv_since, rcv_lag_at, fwd_pc>>
    /\ BtnFrame

\* lib.rs:207-219  register_button_callback subscribes to the ControlPort's
\* channel
RegisterButtonCallback(s) ==
    /\ rcv_pc[s] = "none"
    /\ rcv_pc' = [rcv_pc EXCEPT ![s] = "registered"]
    /\ rcv_next' = [rcv_next EXCEPT ![s] = Len(port_chan)]
    /\ rcv_since' = [rcv_since EXCEPT ![s] = btn_count]
    /\ UNCHANGED <<btn_count, ctl_chan, fwd_next, fwd_got, fwd_lag_at, port_chan,
                   rcv_got, rcv_lag_at, fwd_pc>>
    /\ BtnFrame

\* lib.rs:247-253  start_listening spawns the listener loop
StartListening(s) ==
    /\ rcv_pc[s] = "registered"
    /\ rcv_pc' = [rcv_pc EXCEPT ![s] = "listening"]
    /\ UNCHANGED <<btn_count, ctl_chan, fwd_next, fwd_got, fwd_lag_at, port_chan,
                   rcv_next, rcv_got, rcv_since, rcv_lag_at, fwd_pc>>
    /\ BtnFrame

\* lib.rs:255-265  listener: recv returned Ok(buttons), the callback is called
ListenerReceive(s) ==
    /\ rcv_pc[s] = "listening"
    /\ rcv_next[s] < Len(port_chan)
    /\ ~Lagged(port_chan, rcv_next[s])
    /\ rcv_next' = [rcv_next EXCEPT ![s] = @ + 1]
    /\ rcv_got' = [rcv_got EXCEPT ![s] = Append(@, port_chan[rcv_next[s] + 1])]
    /\ UNCHANGED <<btn_count, ctl_chan, fwd_next, fwd_got, fwd_lag_at, port_chan,
                   rcv_pc, rcv_since, rcv_lag_at, fwd_pc>>
    /\ BtnFrame

\* lib.rs:266-269  listener: recv returned Err(e), here Lagged; it is printed
\* and the loop is left
ListenerError(s) ==
    /\ rcv_pc[s] = "listening"
    /\ Lagged(port_chan, rcv_next[s])
    /\ rcv_pc' = [rcv_pc EXCEPT ![s] = "stopped"]
    /\ rcv_next' = [rcv_next EXCEPT ![s] = OldestRetained(port_chan)]
    /\ rcv_lag_at' = [rcv_lag_at EXCEPT ![s] = Len(port_chan)]
    /\ UNCHANGED <<btn_count, ctl_chan, fwd_next, fwd_got, fwd_lag_at, port_chan,
                   rcv_got, rcv_since, fwd_pc>>
    /\ BtnFrame

NextBtn ==
    \/ FwdSubscribe
    \/ ButtonLine
    \/ FwdForward
    \/ FwdLagged
    \/ \E s \in Receivers : RegisterButtonCallback(s)
    \/ \E s \in Receivers : StartListening(s)
    \/ \E s \in Receivers : ListenerReceive(s)
    \/ \E s \in Receivers : ListenerError(s)

(***************************************************************************)
(* ==================  ART-NET SERIALIZER (artnet/lib.rs)  =============== *)
(***************************************************************************)

\* datagrams one invocation may hand to the socket in a run
MaxPackets == 10

U16 == 2 ^ 16

\* artnet/lib.rs:5-7  saturate_u8 on a product of a u8 and the brightness;
\* the brightness is given in halves, so the product is num / 2 and the
\* cast to u8 drops the fraction
saturate_u8(num) ==
    LET clamped == IF num < 0 THEN 0 ELSE IF num > 2 * 255 THEN 2 * 255 ELSE num
    IN  clamped \div 2

\* the colour of cell i of the rasters of the model: (10,20,30), (40,50,60), ...
Cell(i) == [red |-> (10 + 30 * i) % 256, green |-> (20 + 30 * i) % 256,
            blue |-> (30 + 30 * i) % 256]

RasterData(n) == [i \in 1 .. n |-> Cell(i - 1)]

\* (width, height, length) of the rasters of the model
Dimensions == { <<2, 1, 1>>, <<1, 1, 2>>, <<2, 2, 2>>, <<0, 1, 1>>, <<1, 1, 3>> }

\* z_indices: None is <<"None">>, Some(v) is <<"Some", v>>
ZIndexArgs == { <<"None">>, <<"Some", <<>>>>, <<"Some", <<0>>>>, <<"Some", <<1, 0>>>>,
                <<"Some", <<0, 5, 1>>>> }

\* lengths of data for a raster of dimensions d: width*height*length cells, or
\* one cell less
DataLengths(d) ==
    LET cells == d[1] * d[2] * d[3]
    IN  {cells} \cup (IF cells > 0 THEN {cells - 1} ELSE {})

\* a call of send_dmx with a raster that has get_data_mut (artnet/lib.rs:285-313);
\* data is what get_data_mut returned, which need not have width*height*length
\* cells; build is the overflow behaviour of the compiled library
ArtCallsOf(d) ==
    { [base_universe |-> b, width |-> d[1], height |-> d[2], length |-> d[3],
       brightness2 |-> br, data |-> RasterData(n),
       channels_per_universe |-> cpu, universes_per_layer |-> upl,
       channel_span |-> span, z_indices |-> zi, build |-> bld] :
        b \in {0, U16 - 1}, br \in {1, 2},
        n \in DataLengths(d), cpu \in {0, 4, 510}, upl \in {1, 3}, span \in {0, 1, 2},
        zi \in ZIndexArgs, bld \in {"debug", "release"} }

ArtCalls == UNION { ArtCallsOf(d) : d \in Dimensions }

NoArtCall ==
    [base_universe |-> 0, width |-> 0, height |-> 0, length |-> 0, brightness2 |-> 2,
     data |-> <<>>, channels_per_universe |-> 510, universes_per_layer |-> 3,
     channel_span |-> 1, z_indices |-> <<"None">>, build |-> "release"]

\* artnet/lib.rs:273-283  ArtNetController::new: a socket, nothing sent
InitArt ==
    /\ art_call = NoArtCall
    /\ art_pc = "idle"
    /\ art_zs = <<>>
    /\ art_out_z = 0
    /\ art_universe = 0
    /\ art_bytes = <<>>
    /\ art_layer_base = 0
    /\ art_sent = <<>>

\* artnet/lib.rs:247-258  create_dmx_packet: the OpDmx datagram by its fields
create_dmx_packet(universe, data) ==
    [op |-> "OpDmx", universe |-> universe, length |-> Len(data) % U16, payload |-> data]

create_sync_packet_AsDmx ==
    [op |-> "OpDmx", universe |-> 0, length |-> 0, payload |-> <<>>]

\* artnet/lib.rs:260-268  create_sync_packet
create_sync_packet == [op |-> "OpSync"]

\* artnet/lib.rs:396  (0..length).step_by(channel_span).collect()
RECURSIVE StepBy(_, _, _)
StepBy(from, length, step) ==
    IF from >= length THEN <<>> ELSE <<from>> \o StepBy(from + step, length, step)

StartUniverseWide_NoSpan(call, out_z) ==
    (out_z % U16) * call.universes_per_layer + call.base_universe

\* artnet/lib.rs:404-405  (out_z / channel_span) as u16 * universes_per_layer
\* + base_universe, without the overflow checks
StartUniverseWide(call, out_z) ==
    ((out_z \div call.channel_span) % U16) * call.universes_per_layer + call.base_universe

\* the bytes of layer z: three per cell, scaled by the brightness
\* (artnet/lib.rs:414-419)
RECURSIVE CellBytes(_, _, _)
CellBytes(call, i, end) ==
    IF i >= end THEN <<>>
    ELSE LET rgb == call.data[i + 1]
         IN  << saturate_u8(rgb.red * call.brightness2),
                saturate_u8(rgb.green * call.brightness2),
                saturate_u8(rgb.blue * call.brightness2) >>
             \o CellBytes(call, i + 1, end)

LayerStart(call, z) == z * call.width * call.height
LayerEnd(call, z) == (z + 1) * call.width * call.height

\* artnet/lib.rs:410  if end > data.len() { continue; }
LayerSkipped(call, z) == LayerEnd(call, z) > Len(call.data)

ChunkSize_Whole(call, data_to_send) == Len(data_to_send)

\* artnet/lib.rs:423  min(data_to_send.len(), channels_per_universe)
ChunkSize(call, data_to_send) ==
    IF Len(data_to_send) < call.channels_per_universe
    THEN Len(data_to_send) ELSE call.channels_per_universe

\* artnet/lib.rs:285-313, 379-400  send_dmx is called; z_indices_ref is built,
\* and (0..length).step_by(0) panics
SendDmx(call) ==
    /\ art_pc = "idle"
    /\ art_call' = call
    /\ art_sent' = <<>>
    /\ art_out_z' = 0
    /\ art_universe' = 0
    /\ art_bytes' = <<>>
    /\ art_layer_base' = 0
    /\ IF call.z_indices[1] = "Some"
       THEN art_zs' = call.z_indices[2] /\ art_pc' = "layer"
       ELSE IF call.channel_span = 0
       THEN art_zs' = <<>> /\ art_pc' = "panicked"
       ELSE art_zs' = StepBy(0, call.length, call.channel_span) /\ art_pc' = "layer"
    /\ ArtFrame

\* artnet/lib.rs:403-420  the head of one iteration of the layer loop: the
\* starting universe is computed (division by zero and, in a debug build,
\* u16 overflow panic; a release build wraps), then the layer is skipped or
\* its bytes are produced
NextLayer ==
    /\ art_pc = "layer"
    /\ art_out_z < Len(art_zs)
    /\ LET z == art_zs[art_out_z + 1]
           product == ((art_out_z \div art_call.channel_span) % U16)
                          * art_call.universes_per_layer
           wide == StartUniverseWide(art_call, art_out_z)
           overflow == product >= U16 \/ (product % U16) + art_call.base_universe >= U16
       IN  IF art_call.channel_span = 0 \/ (overflow /\ art_call.build = "debug")
           THEN /\ art_pc' = "panicked"
                /\ UNCHANGED <<art_out_z, art_universe, art_bytes, art_layer_base>>
           ELSE /\ art_universe' = wide % U16
                /\ art_layer_base' = Len(art_sent)
                /\ IF LayerSkipped(art_call, z)
                   THEN /\ art_out_z' = art_out_z + 1
                        /\ art_bytes' = <<>>
                        /\ art_pc' = "layer"
                   ELSE LET data_bytes == CellBytes(art_call, LayerStart(art_call, z),
                                                    LayerEnd(art_call, z))
                        IN  /\ art_bytes' = data_bytes
                            /\ art_out_z' = IF data_bytes = <<>> THEN art_out_z + 1
                                            ELSE art_out_z
                            /\ art_pc' = IF data_bytes = <<>> THEN "layer" ELSE "chunks"
    /\ UNCHANGED <<art_call, art_zs, art_sent>>
    /\ ArtFrame

\* artnet/lib.rs:422-431  one iteration of the chunk loop: the chunk is sent
\* (send_to may fail, which ends the invocation with the error), the
\* universe is incremented (overflow as above); after the last chunk the
\* loop over the layers goes on
SendChunk(ok) ==
    /\ art_pc = "chunks"
    /\ Len(art_sent) < MaxPackets
    /\ LET chunk_size == ChunkSize(art_call, art_bytes)
           chunk == SubSeq(art_bytes, 1, chunk_size)
           rest == SubSeq(art_bytes, chunk_size + 1, Len(art_bytes))
       IN  IF ~ok
           THEN /\ art_pc' = "failed"
                /\ UNCHANGED <<art_sent, art_bytes, art_universe, art_out_z>>
           ELSE /\ art_sent' = Append(art_sent, create_dmx_packet(art_universe, chunk))
                /\ art_bytes' = rest
                /\ IF art_universe + 1 >= U16 /\ art_call.build = "debug"
                   THEN /\ art_pc' = "panicked"
                        /\ UNCHANGED <<art_universe, art_out_z>>
                   ELSE /\ art_universe' = (art_universe + 1) % U16
                        /\ art_out_z' = IF rest = <<>> THEN art_out_z + 1 ELSE art_out_z
                        /\ art_pc' = IF rest = <<>> THEN "layer" ELSE "chunks"
    /\ UNCHANGED <<art_call, art_zs, art_layer_base>>
    /\ ArtFrame

\* artnet/lib.rs:434-437  after the loop the sync packet is sent
SendSync(ok) ==
    /\ art_pc = "layer"
    /\ art_out_z = Len(art_zs)
    /\ IF ok
       THEN art_sent' = Append(art_sent, create_sync_packet) /\ art_pc' = "returned"
       ELSE art_sent' = art_sent /\ art_pc' = "failed"
    /\ UNCHANGED <<art_call, art_zs, art_out_z, art_universe, art_bytes, art_layer_base>>
    /\ ArtFrame

ArtSend == \E call \in ArtCalls : SendDmx(call)
ArtChunk == \E ok \in BOOLEAN : SendChunk(ok)
ArtSync == \E ok \in BOOLEAN : SendSync(ok)

NextArt ==
    \/ ArtSend
    \/ NextLayer
    \/ ArtChunk
    \/ ArtSync

(***************************************************************************)
(* ======================  LED FEEDBACK (main.rs)  ======================= *)
(***************************************************************************)

\* main.rs:24-28
LED_OFF == 0
LED_GREEN == 1
LED_RED == 3
LED_ORANGE == 5
LED_BLUE_ISH == 6

\* main.rs:204  mpsc::channel::<LedUpdateRequest>(8); the explored capacity
LedChannelCapacity == 2

\* The MIDI messages of the LED behaviours: the grid press at visible (0,0),
\* LFO bank button 1, effect bank button 1, fader 0 at 64.
LedMidiInputs ==
    {<<144, NOTE_GRID(0, 0), 127>>, <<144, 83, 127>>, <<144, 87, 127>>, <<176, 48, 64>>}

GridLeds == (0 .. (NUM_ROWS - 1)) \X (0 .. (NUM_COLS - 1))

\* main.rs:53-59 LedState::new, 204 the channel, 222-224 the initial
\* BothRefresh that main queues before it spawns the MIDI task
InitLed ==
    /\ led_queue = <<<<"BothRefresh">>>>
    /\ led_pc = "recv"
    /\ led_req = <<>>
    /\ led_grid = [rc \in GridLeds |-> LED_OFF]
    /\ led_lfo_banks = [i \in LfoBanks |-> LED_OFF]
    /\ led_effect_banks = [i \in EffectBanks |-> LED_OFF]
    /\ led_out = {}

\* main.rs:469, 476, 533, 563  the request the handler
\* try_sends for a message, <<>> when it sends none
LedRequestFor(message_data) ==
    LET status == message_data[1]
        data1 == message_data[2]
        data2 == message_data[3]
        kind == (status \div 16) * 16
    IN  IF kind = 144 /\ data2 > 0 /\ data1 >= 82 /\ data1 <= 89
        THEN <<"BothRefresh">>
        ELSE IF kind = 144 /\ data2 > 0 /\ FindGridNote(data1) # <<>>
        THEN IF /\ current_effect_bank * NUM_COLS + FindGridNote(data1)[2] < TOTAL_COLS
                /\ current_lfo_bank * NUM_ROWS + FindGridNote(data1)[1] < TOTAL_ROWS
             THEN <<"FullRefresh">>
             ELSE <<>>
        ELSE IF kind = 176 /\ data1 >= 48 /\ data1 <= 55
        THEN IF current_effect_bank * NUM_COLS + (data1 - 48) < TOTAL_COLS
             THEN <<"FaderColumnRefresh", current_effect_bank * NUM_COLS + (data1 - 48)>>
             ELSE <<>>
        ELSE <<>>

\* tokio mpsc Sender::try_send: the request is queued unless the channel is full
TrySend(queue, request) ==
    IF request = <<>> THEN queue
    ELSE IF Len(queue) < LedChannelCapacity THEN Append(queue, request)
    ELSE queue

\* main.rs:453-573  one iteration of process_midi_messages with its LED request
MidiTask(message_data) ==
    /\ MidiHandler(message_data)
    /\ led_queue' = TrySend(led_queue, LedRequestFor(message_data))
    /\ UNCHANGED <<led_pc, led_req, led_grid, led_lfo_banks, led_effect_banks, led_out>>

\* main.rs:580-594  recv and the match on the request
LedRecv ==
    /\ led_pc = "recv"
    /\ led_queue # <<>>
    /\ led_req' = Head(led_queue)
    /\ led_queue' = Tail(led_queue)
    /\ led_pc' = IF Head(led_queue)[1] = "BothRefresh" THEN "banks"
                 ELSE IF Head(led_queue)[1] = "FullRefresh" THEN "grid"
                 ELSE "column"
    /\ led_out' = {}
    /\ UNCHANGED <<led_grid, led_lfo_banks, led_effect_banks>>
    /\ UNCHANGED mapVars
    /\ LedFrame

\* main.rs:65, 83, 101  send_*_note_if_changed: whether the note is sent
SendIfChanged_Always(cached, desired_velocity) == TRUE

SendIfChanged(cached, desired_velocity) == cached # desired_velocity

\* main.rs:409-416  the velocities _update_bank_select_leds asks for
LfoBankVelocity(i) == IF i = current_lfo_bank THEN LED_ORANGE ELSE LED_OFF
EffectBankVelocity(i) == IF i = current_effect_bank THEN LED_BLUE_ISH ELSE LED_OFF

\* main.rs:405-417  _update_bank_select_leds
UpdateBankSelectLeds ==
    /\ led_pc = "banks"
    /\ led_out' =
          {<<82 + i, LfoBankVelocity(i)>> :
                i \in {j \in LfoBanks : SendIfChanged(led_lfo_banks[j], LfoBankVelocity(j))}}
          \cup
          {<<86 + i, EffectBankVelocity(i)>> :
                i \in {j \in EffectBanks :
                          SendIfChanged(led_effect_banks[j], EffectBankVelocity(j))}}
    /\ led_lfo_banks' = [i \in LfoBanks |-> LfoBankVelocity(i)]
    /\ led_effect_banks' = [i \in EffectBanks |-> EffectBankVelocity(i)]
    /\ led_pc' = "grid"
    /\ UNCHANGED <<led_queue, led_req, led_grid>>
    /\ UNCHANGED mapVars
    /\ LedFrame

\* main.rs:427-446, 622-633  led_velocity of the LED at visual row r_vis for
\* the effect column actual_c_effect_idx
GridVelocity(r_vis, actual_c_effect_idx) ==
    LET actual_r_lfo_idx == current_lfo_bank * NUM_ROWS + r_vis
    IN  IF actual_r_lfo_idx < TOTAL_ROWS /\ actual_c_effect_idx < TOTAL_COLS
        THEN IF /\ <<current_lfo_bank, actual_c_effect_idx>> \in fader_override_active
                /\ <<actual_r_lfo_idx, actual_c_effect_idx>> \in mapping
             THEN LED_RED
             ELSE IF <<actual_r_lfo_idx, actual_c_effect_idx>> \in mapping
             THEN LED_GREEN
             ELSE LED_OFF
        ELSE LED_OFF

\* The grid LEDs a refresh function visits, written with their velocities.
RefreshLeds(leds) ==
    /\ led_out' =
          {<<NOTE_GRID(rc[1], rc[2]),
             GridVelocity(rc[1], current_effect_bank * NUM_COLS + rc[2])>> :
                rc \in {p \in leds :
                          SendIfChanged(led_grid[p],
                              GridVelocity(p[1], current_effect_bank * NUM_COLS + p[2]))}}
    /\ led_grid' =
          [rc \in GridLeds |->
              IF rc \in leds
              THEN GridVelocity(rc[1], current_effect_bank * NUM_COLS + rc[2])
              ELSE led_grid[rc]]

\* main.rs:419-450  _refresh_grid_leds
RefreshGridLeds ==
    /\ led_pc = "grid"
    /\ RefreshLeds(GridLeds)
    /\ led_pc' = "recv"
    /\ UNCHANGED <<led_queue, led_req, led_lfo_banks, led_effect_banks>>
    /\ UNCHANGED mapVars
    /\ LedFrame

\* main.rs:609-613  c_vis_of_effect as the set of LEDs of that column, empty
\* when the effect is not in the current effect bank's view
ColumnLeds(actual_effect_idx_of_fader) ==
    IF /\ actual_effect_idx_of_fader >= current_effect_bank * NUM_COLS
       /\ actual_effect_idx_of_fader < (current_effect_bank + 1) * NUM_COLS
    THEN {rc \in GridLeds : rc[2] = actual_effect_idx_of_fader % NUM_COLS}
    ELSE {}

\* main.rs:600-637  _refresh_fader_column_leds
RefreshFaderColumnLeds ==
    /\ led_pc = "column"
    /\ RefreshLeds(ColumnLeds(led_req[2]))
    /\ led_pc' = "recv"
    /\ UNCHANGED <<led_queue, led_req, led_lfo_banks, led_effect_banks>>
    /\ UNCHANGED mapVars
    /\ LedFrame

LedMidiInput == \E m \in LedMidiInputs : MidiTask(m)

NextLed ==
    \/ LedMidiInput
    \/ LedRecv
    \/ UpdateBankSelectLeds
    \/ RefreshGridLeds
    \/ RefreshFaderColumnLeds

(***************************************************************************)
(* ==================  LOCKS OF THE MAPPING ENGINE (main.rs)  ============ *)
(***************************************************************************)

\* The tasks spawned by main (main.rs:213-226) that touch AppState's locks.
Tasks == {"sender", "midi", "osc", "led"}

\* main.rs:149-152  the RwLocks of AppState
LockNames == {"mapping", "fader_override_active", "fader_override_value", "latest_lfo_values"}

\* Input events per behaviour of the lock model.
MaxLockEvents == 2

\* MIDI messages that take locks: grid presses at visible (0,0) and (1,0) and
\* fader 0 (CC 48) at 64.
LockMidiInputs ==
    {<<144, NOTE_GRID(0, 0), 127>>, <<144, NOTE_GRID(1, 0), 127>>, <<176, 48, 64>>}

\* main.rs:455-462, 479-493  the message is a true note-on of a grid button
IsGrid(m) == (m[1] \div 16) * 16 = 144 /\ m[3] > 0 /\ FindGridNote(m[2]) # <<>>

\* main.rs:540-545  the message is a CC of one of the faders
IsFader(m) == (m[1] \div 16) * 16 = 176 /\ m[2] >= 48 /\ m[2] <= 55

\* main.rs:649-652  the sender's read guards, in acquisition order
SenderLocks ==
    <<"mapping", "fader_override_active", "fader_override_value", "latest_lfo_values">>

\* main.rs:502-503  the write guards of a grid press, in acquisition order
GridPressLocks_Reversed == <<"fader_override_active", "mapping">>

GridPressLocks == <<"mapping", "fader_override_active">>

\* main.rs:551-552  the write guards of a fader CC, in acquisition order
FaderLocks == <<"fader_override_active", "fader_override_value">>

\* main.rs:264  the write guard of process_osc_message
OscLocks == <<"latest_lfo_values">>

\* main.rs:423-424, 603-604  the read guards of the LED refresh functions
LedLocks == <<"mapping", "fader_override_active">>

\* The guards a task takes for what it is doing, in order.
Locks(t) ==
    IF t = "sender" THEN SenderLocks
    ELSE IF t = "midi" THEN (IF IsGrid(lk_msg) THEN GridPressLocks ELSE FaderLocks)
    ELSE IF t = "osc" THEN OscLocks
    ELSE LedLocks

\* read() for the sender and the LED task, write() for the others
Mode(t) == IF t \in {"sender", "led"} THEN "read" ELSE "write"

\* The matrices the claims on snapshots are about.
Matrices == <<mapping, fader_override_active, fader_override_value>>

\* main.rs:155-168 AppState::new: all locks free, all tasks before their first step
InitLock ==
    /\ lk_readers = [l \in LockNames |-> {}]
    /\ lk_writer = [l \in LockNames |-> "none"]
    /\ lk_pc = [t \in Tasks |-> "idle"]
    /\ lk_n = [t \in Tasks |-> 0]
    /\ lk_msg = <<>>
    /\ lk_snapshot = <<>>
    /\ lk_committed = <<{}, {}, [b \in LfoBanks |-> [c \in Cols |-> 0]]>>

\* The lock the task asks for next.
Wanted(t) == Locks(t)[lk_n[t] + 1]

\* The task is inside read() or write().
Acquiring(t) == lk_pc[t] = "acquire" /\ lk_n[t] < Len(Locks(t))

\* The tasks waiting in write() of lock l.
WaitingWriters(l) == {u \in Tasks : Mode(u) = "write" /\ Acquiring(u) /\ Wanted(u) = l}

\* std::sync::RwLock: write() returns when nobody holds the lock, read() when
\* no writer holds it.  The priority policy is the platform's: where it
\* prefers writers a read() also waits while a writer waits, which only
\* removes steps.
CanAcquire_ReadersNeverWait(t, l) ==
    IF Mode(t) = "read" THEN TRUE
    ELSE lk_writer[l] = "none" /\ lk_readers[l] = {}

CanAcquire(t, l) ==
    IF Mode(t) = "read"
    THEN lk_writer[l] = "none"
    ELSE lk_writer[l] = "none" /\ lk_readers[l] = {}

\* What the mapping-engine actions of this section leave alone.
SenderLocals == <<osc_sent_values, next_osc_values_to_send, sender_pc, bundle, send_result>>
Banks == <<current_lfo_bank, current_effect_bank>>

\* A task enters the block in which it takes its guards.
Begin(t) ==
    /\ lk_pc[t] = "idle"
    /\ lk_pc' = [lk_pc EXCEPT ![t] = "acquire"]
    /\ UNCHANGED <<lk_readers, lk_writer, lk_n, lk_snapshot, lk_committed>>
    /\ UNCHANGED <<Banks, Matrices, latest_lfo_values, last_midi, events, SenderLocals>>
    /\ LockFrame

\* main.rs:644  interval.tick() of the sender
SenderTick == Begin("sender") /\ UNCHANGED lk_msg

\* main.rs:580  the LED task received a request
LedBegin == Begin("led") /\ UNCHANGED lk_msg

\* main.rs:294-296  the OSC listener received a message
OscBegin == events < MaxLockEvents /\ Begin("osc") /\ UNCHANGED lk_msg

\* main.rs:455  the MIDI task received a grid or fader message
MidiBegin(m) ==
    /\ events < MaxLockEvents
    /\ IsGrid(m) \/ IsFader(m)
    /\ Begin("midi")
    /\ lk_msg' = m

\* One read().unwrap() or write().unwrap() of the task returns.
Acquire(t) ==
    /\ Acquiring(t)
    /\ CanAcquire(t, Wanted(t))
    /\ IF Mode(t) = "read"
       THEN /\ lk_readers' = [lk_readers EXCEPT ![Wanted(t)] = @ \cup {t}]
            /\ UNCHANGED lk_writer
       ELSE /\ lk_writer' = [lk_writer EXCEPT ![Wanted(t)] = t]
            /\ UNCHANGED lk_readers
    /\ lk_n' = [lk_n EXCEPT ![t] = @ + 1]
    /\ lk_pc' = [lk_pc EXCEPT ![t] = IF lk_n[t] + 1 = Len(Locks(t)) THEN "work" ELSE "acquire"]
    /\ UNCHANGED <<lk_msg, lk_snapshot, lk_committed>>
    /\ UNCHANGED <<Banks, Matrices, latest_lfo_values, last_midi, events, SenderLocals>>
    /\ LockFrame

\* The guards of the task go out of scope; its position becomes pc.
Release(t, pc) ==
    /\ lk_readers' = [l \in LockNames |-> lk_readers[l] \ {t}]
    /\ lk_writer' = [l \in LockNames |-> IF lk_writer[l] = t THEN "none" ELSE lk_writer[l]]
    /\ lk_n' = [lk_n EXCEPT ![t] = 0]
    /\ lk_pc' = [lk_pc EXCEPT ![t] = pc]

\* A step of a task that keeps its guards; its position becomes pc.
Hold(t, pc) ==
    /\ lk_pc' = [lk_pc EXCEPT ![t] = pc]
    /\ UNCHANGED <<lk_readers, lk_writer, lk_n>>

\* main.rs:647-685  the sender reads the matrices under its four guards, and
\* the guards are dropped at the end of the block
SenderReadRelease ==
    /\ lk_pc["sender"] = "work"
    /\ lk_snapshot' = Matrices
    /\ Release("sender", "send")
    /\ UNCHANGED <<lk_msg, lk_committed>>
    /\ UNCHANGED <<Banks, Matrices, latest_lfo_values, last_midi, events, SenderLocals>>
    /\ LockFrame

\* main.rs:687-721  the sender builds and sends the bundle; the tick ends
SenderSendBundle ==
    /\ lk_pc["sender"] = "send"
    /\ lk_snapshot' = <<>>
    /\ Hold("sender", "idle")
    /\ UNCHANGED <<lk_msg, lk_committed>>
    /\ UNCHANGED <<Banks, Matrices, latest_lfo_values, last_midi, events, SenderLocals>>
    /\ LockFrame

\* main.rs:426-449, 615-636  the LED task reads under its two guards and drops them
LedRefreshRelease ==
    /\ lk_pc["led"] = "work"
    /\ Release("led", "idle")
    /\ UNCHANGED <<lk_msg, lk_snapshot, lk_committed>>
    /\ UNCHANGED <<Banks, Matrices, latest_lfo_values, last_midi, events, SenderLocals>>
    /\ LockFrame

\* main.rs:264-269  process_osc_message stores the value and drops its guard
OscWriteRelease(lfo_source_on_grid, value) ==
    /\ lk_pc["osc"] = "work"
    /\ latest_lfo_values' =
          [latest_lfo_values EXCEPT
              ![current_lfo_bank * NUM_ROWS + (lfo_source_on_grid - 1)] = value]
    /\ events' = events + 1
    /\ Release("osc", "idle")
    /\ UNCHANGED <<lk_msg, lk_snapshot, lk_committed>>
    /\ UNCHANGED <<Banks, Matrices, last_midi, SenderLocals>>
    /\ LockFrame

\* The cell of the grid press being handled (main.rs:494-499).
PressedRow == current_lfo_bank * NUM_ROWS + FindGridNote(lk_msg[2])[1]
PressedCol == current_effect_bank * NUM_COLS + FindGridNote(lk_msg[2])[2]

\* main.rs:506-510  grid press: the fader override of the column is cleared
GridClearOverride ==
    /\ lk_pc["midi"] = "work"
    /\ IsGrid(lk_msg)
    /\ fader_override_active' =
          GridPressFader(fader_override_active, current_lfo_bank, PressedCol)
    /\ Hold("midi", "toggle")
    /\ UNCHANGED <<lk_msg, lk_snapshot, lk_committed>>
    /\ UNCHANGED <<Banks, mapping, fader_override_value, latest_lfo_values, last_midi, events,
                   SenderLocals>>
    /\ LockFrame

\* main.rs:518-528  grid press turning the cell on: the other rows of the bank
\* are unmapped first
GridClearOthers ==
    /\ lk_pc["midi"] = "toggle"
    /\ <<PressedRow, PressedCol>> \notin mapping
    /\ mapping' = GridPressMapping(mapping, current_lfo_bank, PressedRow, PressedCol)
                    \ {<<PressedRow, PressedCol>>}
    /\ Hold("midi", "set")
    /\ UNCHANGED <<lk_msg, lk_snapshot, lk_committed>>
    /\ UNCHANGED <<Banks, fader_override_active, fader_override_value, latest_lfo_values,
                   last_midi, events, SenderLocals>>
    /\ LockFrame

\* main.rs:512-537  grid press: the cell is switched off, or on after the
\* others were cleared; the guards are dropped and the event is complete
GridToggleRelease ==
    /\ \/ /\ lk_pc["midi"] = "toggle"
          /\ <<PressedRow, PressedCol>> \in mapping
          /\ mapping' = mapping \ {<<PressedRow, PressedCol>>}
       \/ /\ lk_pc["midi"] = "set"
          /\ mapping' = mapping \cup {<<PressedRow, PressedCol>>}
    /\ Release("midi", "idle")
    /\ lk_committed' = <<mapping', fader_override_active, fader_override_value>>
    /\ events' = events + 1
    /\ last_midi' = lk_msg
    /\ UNCHANGED <<lk_msg, lk_snapshot>>
    /\ UNCHANGED <<Banks, fader_override_active, fader_override_value, latest_lfo_values,
                   SenderLocals>>
    /\ LockFrame

\* main.rs:554-557  fader CC: the override is switched on
FaderSetActive ==
    /\ lk_pc["midi"] = "work"
    /\ IsFader(lk_msg)
    /\ fader_override_active' =
          fader_override_active \cup
              {<<current_lfo_bank, current_effect_bank * NUM_COLS + (lk_msg[2] - 48)>>}
    /\ Hold("midi", "value")
    /\ UNCHANGED <<lk_msg, lk_snapshot, lk_committed>>
    /\ UNCHANGED <<Banks, mapping, fader_override_value, latest_lfo_values, last_midi, events,
                   SenderLocals>>
    /\ LockFrame

\* main.rs:558-569  fader CC: the value is stored; the guards are dropped and
\* the event is complete
FaderSetValueRelease ==
    /\ lk_pc["midi"] = "value"
    /\ fader_override_value' =
          [fader_override_value EXCEPT
              ![current_lfo_bank][current_effect_bank * NUM_COLS + (lk_msg[2] - 48)] =
                  CcToFloat(lk_msg[3])]
    /\ Release("midi", "idle")
    /\ lk_committed' = <<mapping, fader_override_active, fader_override_value'>>
    /\ events' = events + 1
    /\ last_midi' = lk_msg
    /\ UNCHANGED <<lk_msg, lk_snapshot>>
    /\ UNCHANGED <<Banks, mapping, fader_override_active, latest_lfo_values, SenderLocals>>
    /\ LockFrame

LockMidiInput == \E m \in LockMidiInputs : MidiBegin(m)
LockAcquire == \E t \in Tasks : Acquire(t)
LockOscWrite == OscWriteRelease(1, F32_QUARTER)

NextLock ==
    \/ SenderTick
    \/ LedBegin
    \/ OscBegin
    \/ LockMidiInput
    \/ LockAcquire
    \/ SenderReadRelease
    \/ SenderSendBundle
    \/ LedRefreshRelease
    \/ LockOscWrite
    \/ GridClearOverride
    \/ GridClearOthers
    \/ GridToggleRelease
    \/ FaderSetActive
    \/ FaderSetValueRelease

(***************************************************************************)
(* ============  CONCURRENT DISPLAY CALLS (control_port.rs)  ============== *)
(***************************************************************************)

\* Callers of one connected device: two of ControlPort::commit_display, one of
\* write_display / clear_display, one of force_display_refresh.
Committers == {"c1", "c2"}
CmTasks == Committers \cup {"w", "r"}
CmLockNames == {"front", "back"}

\* Bound: calls each caller starts.
MaxDisplayCalls == 2

\* Arguments of the write_display / clear_display calls
CmOps == {[kind |-> "write", x |-> 0, y |-> 0, text |-> <<"A">>],
          [kind |-> "clear", x |-> 0, y |-> 0, text |-> <<>>]}

Guard(t, mode) == [task |-> t, mode |-> mode]

\* tokio::sync::RwLock: a read guard is compatible with read guards, a write
\* guard with none.
Compatible(held, mode) ==
    IF mode = "read" THEN \A g \in held : g.mode = "read" ELSE held = {}

\* tokio::sync::RwLock is fair: requests that cannot be granted wait in a
\* first-in first-out queue, and a request made while others wait joins it.
\* control_port.rs:438  read().await / write().await
LockRequest(locks, t, l, mode) ==
    IF locks.wait[l] = <<>> /\ Compatible(locks.held[l], mode)
    THEN [locks EXCEPT !.held[l] = @ \cup {Guard(t, mode)}]
    ELSE [locks EXCEPT !.wait[l] = Append(@, Guard(t, mode))]

\* The permits of a dropped guard go to the waiting requests in order.
RECURSIVE WakeWaiters(_, _)
WakeWaiters(held, wait) ==
    IF wait # <<>> /\ Compatible(held, Head(wait).mode)
    THEN WakeWaiters(held \cup {Head(wait)}, Tail(wait))
    ELSE <<held, wait>>

\* control_port.rs:449, 472  drop of a guard
LockDrop(locks, t, l) ==
    LET woken == WakeWaiters({g \in locks.held[l] : g.task # t}, locks.wait[l])
    IN  [locks EXCEPT !.held[l] = woken[1], !.wait[l] = woken[2]]

Holds(t, l, mode) == Guard(t, mode) \in cm_locks.held[l]

\* control_port.rs:259-283
InitCmt ==
    /\ cm_front = BlankBuffer
    /\ cm_back = BlankBuffer
    /\ cm_locks = [held |-> [l \in CmLockNames |-> {}], wait |-> [l \in CmLockNames |-> <<>>]]
    /\ cm_pc = [t \in CmTasks |-> "idle"]
    /\ cm_calls = [t \in CmTasks |-> 0]
    /\ cm_op = [kind |-> "clear", x |-> 0, y |-> 0, text |-> <<>>]
    /\ cm_msgs = [t \in CmTasks |-> <<>>]
    /\ cm_queue = <<>>


CmStart(t) ==
    /\ cm_pc[t] = "idle"
    /\ cm_calls[t] < MaxDisplayCalls
    /\ cm_calls' = [cm_calls EXCEPT ![t] = @ + 1]

\* control_port.rs:1276-1278, 438  commit_display: front_buffer.read().await
CommitFrontRead(c) ==
    /\ CmStart(c)
    /\ cm_locks' = LockRequest(cm_locks, c, "front", "read")
    /\ cm_pc' = [cm_pc EXCEPT ![c] = "front_read"]
    /\ UNCHANGED <<cm_front, cm_back, cm_op, cm_msgs, cm_queue>>
    /\ CmtFrame

\* control_port.rs:439  back_buffer.read().await
CommitBackRead(c) ==
    /\ cm_pc[c] = "front_read"
    /\ Holds(c, "front", "read")
    /\ cm_locks' = LockRequest(cm_locks, c, "back", "read")
    /\ cm_pc' = [cm_pc EXCEPT ![c] = "back_read"]
    /\ UNCHANGED <<cm_front, cm_back, cm_calls, cm_op, cm_msgs, cm_queue>>
    /\ CmtFrame

\* control_port.rs:441-449, 459-472  the messages, then drop(front_buffer)
CommitDiff(c) ==
    /\ cm_pc[c] = "back_read"
    /\ Holds(c, "back", "read")
    /\ cm_msgs' = [cm_msgs EXCEPT ![c] = CommitMessages(cm_front, cm_back)]
    /\ cm_locks' = LockDrop(cm_locks, c, "front")
    /\ cm_pc' = [cm_pc EXCEPT ![c] = "diffed"]
    /\ UNCHANGED <<cm_front, cm_back, cm_calls, cm_op, cm_queue>>
    /\ CmtFrame

\* control_port.rs:450, 473  front_buffer.write().await
CommitFrontWrite(c) ==
    /\ cm_pc[c] = "diffed"
    /\ cm_locks' = LockRequest(cm_locks, c, "front", "write")
    /\ cm_pc' = [cm_pc EXCEPT ![c] = "front_write"]
    /\ UNCHANGED <<cm_front, cm_back, cm_calls, cm_op, cm_msgs, cm_queue>>
    /\ CmtFrame

\* control_port.rs:451-456, 474-480  the copy; the guards drop on return
CommitCopy(c) ==
    /\ cm_pc[c] = "front_write"
    /\ Holds(c, "front", "write")
    /\ cm_front' = CommitFront(cm_front, cm_back)
    /\ cm_locks' = LockDrop(LockDrop(cm_locks, c, "front"), c, "back")
    /\ cm_pc' = [cm_pc EXCEPT ![c] = "send"]
    /\ UNCHANGED <<cm_back, cm_calls, cm_op, cm_msgs, cm_queue>>
    /\ CmtFrame

\* control_port.rs:1280-1284, 523-535  send_message of the next message
CommitSend(c) ==
    /\ cm_pc[c] = "send"
    /\ cm_msgs[c] # <<>>
    /\ cm_queue' = Append(cm_queue, Head(cm_msgs[c]))
    /\ cm_msgs' = [cm_msgs EXCEPT ![c] = Tail(@)]
    /\ UNCHANGED <<cm_front, cm_back, cm_locks, cm_pc, cm_calls, cm_op>>
    /\ CmtFrame

\* control_port.rs:1285  Ok(())
CommitReturn(c) ==
    /\ cm_pc[c] = "send"
    /\ cm_msgs[c] = <<>>
    /\ cm_pc' = [cm_pc EXCEPT ![c] = "idle"]
    /\ UNCHANGED <<cm_front, cm_back, cm_locks, cm_calls, cm_op, cm_msgs, cm_queue>>
    /\ CmtFrame

\* control_port.rs:408-409, 417-422  back_buffer.write().await
WriteBackWrite(op) ==
    /\ CmStart("w")
    /\ cm_op' = op
    /\ cm_locks' = LockRequest(cm_locks, "w", "back", "write")
    /\ cm_pc' = [cm_pc EXCEPT !["w"] = "back_write"]
    /\ UNCHANGED <<cm_front, cm_back, cm_msgs, cm_queue>>
    /\ CmtFrame

\* control_port.rs:410-415, 423-434  the writes; the guard drops on return
WriteApply ==
    /\ cm_pc["w"] = "back_write"
    /\ Holds("w", "back", "write")
    /\ cm_back' = IF cm_op.kind = "clear" THEN ClearDisplay(cm_back)
                  ELSE WriteDisplay(cm_back, cm_op.x, cm_op.y, cm_op.text)
    /\ cm_locks' = LockDrop(cm_locks, "w", "back")
    /\ cm_pc' = [cm_pc EXCEPT !["w"] = "idle"]
    /\ UNCHANGED <<cm_front, cm_calls, cm_op, cm_msgs, cm_queue>>
    /\ CmtFrame

\* control_port.rs:539  force_display_refresh: back_buffer.read().await
RefreshBackRead ==
    /\ CmStart("r")
    /\ cm_locks' = LockRequest(cm_locks, "r", "back", "read")
    /\ cm_pc' = [cm_pc EXCEPT !["r"] = "back_read"]
    /\ UNCHANGED <<cm_front, cm_back, cm_op, cm_msgs, cm_queue>>
    /\ CmtFrame

\* control_port.rs:541-561  the messages of the refresh, read under the guard
RefreshCollect ==
    /\ cm_pc["r"] = "back_read"
    /\ Holds("r", "back", "read")
    /\ cm_msgs' = [cm_msgs EXCEPT !["r"] = RefreshMessages(cm_back)]
    /\ cm_pc' = [cm_pc EXCEPT !["r"] = "send"]
    /\ UNCHANGED <<cm_front, cm_back, cm_locks, cm_calls, cm_op, cm_queue>>
    /\ CmtFrame

\* control_port.rs:542, 552-558  send_message of the next message
RefreshSend ==
    /\ cm_pc["r"] = "send"
    /\ cm_msgs["r"] # <<>>
    /\ cm_queue' = Append(cm_queue, Head(cm_msgs["r"]))
    /\ cm_msgs' = [cm_msgs EXCEPT !["r"] = Tail(@)]
    /\ UNCHANGED <<cm_front, cm_back, cm_locks, cm_pc, cm_calls, cm_op>>
    /\ CmtFrame

\* control_port.rs:564-565  Ok(()); the guard drops
RefreshReturn ==
    /\ cm_pc["r"] = "send"
    /\ cm_msgs["r"] = <<>>
    /\ cm_locks' = LockDrop(cm_locks, "r", "back")
    /\ cm_pc' = [cm_pc EXCEPT !["r"] = "idle"]
    /\ UNCHANGED <<cm_front, cm_back, cm_calls, cm_op, cm_msgs, cm_queue>>
    /\ CmtFrame

CommitCall(c) ==
    \/ CommitFrontRead(c)
    \/ CommitBackRead(c)
    \/ CommitDiff(c)
    \/ CommitFrontWrite(c)
    \/ CommitCopy(c)
    \/ CommitSend(c)
    \/ CommitReturn(c)

NextCmt ==
    \/ \E c \in Committers : CommitCall(c)
    \/ \E op \in CmOps : WriteBackWrite(op)
    \/ WriteApply
    \/ RefreshBackRead
    \/ RefreshCollect
    \/ RefreshSend
    \/ RefreshReturn

\* What the device shows after the messages of a queue, from a blank display
RECURSIVE ShownAfter(_)
ShownAfter(queue) ==
    IF queue = <<>> THEN BlankBuffer
    ELSE ApplyMessage(ShownAfter(SubSeq(queue, 1, Len(queue) - 1)), queue[Len(queue)])

(***************************************************************************)
(* ===============  THROUGHPUT STATISTICS (control_port.rs)  ============== *)
(***************************************************************************)

\* Bounds: the clock's step and end in ms, the bytes one transfer adds, the
\* bytes transferred in a behaviour.
ThrTick == 50
MaxThrTime == 400
ThrChunk == 100
MaxThrBytes == 300

NoSample == [applied |-> FALSE, time_diff |-> 0, delta_sent |-> 0, delta_received |-> 0]

\* control_port.rs:269-275  ControllerState::new
InitThr ==
    /\ thr_now = 0
    /\ thr_bytes_sent = 0
    /\ thr_bytes_received = 0
    /\ thr_last_bytes_sent = 0
    /\ thr_last_bytes_received = 0
    /\ thr_last_update = None
    /\ thr_sent_bps = 0
    /\ thr_received_bps = 0
    /\ thr_stored_at = None
    /\ thr_sample = NoSample

\* control_port.rs:362-365  whether the filter is updated: time_diff > 0.1 s
FilterDue(time_diff) == time_diff > 100

\* control_port.rs:370-389  alpha * instant + (1 - alpha) * old with
\* instant = delta / time_diff and alpha = time_diff / (2 + time_diff), which
\* is (delta + 2 s * old) / (2 s + time_diff); rounded down to the unit.
Filtered(old, delta, time_diff) == (delta * 1000000 + 2000 * old) \div (2000 + time_diff)

\* control_port.rs:357-406  update_throughput, called by update_stats
UpdateThroughput ==
    LET time_diff == thr_now - thr_last_update
        due == thr_last_update # None /\ FilterDue(time_diff)
        store == thr_last_update = None \/ due
    IN  /\ thr_sent_bps' = IF due
                           THEN Filtered(thr_sent_bps, thr_bytes_sent - thr_last_bytes_sent,
                                         time_diff)
                           ELSE thr_sent_bps
        /\ thr_received_bps' = IF due
                               THEN Filtered(thr_received_bps,
                                             thr_bytes_received - thr_last_bytes_received,
                                             time_diff)
                               ELSE thr_received_bps
        /\ thr_last_bytes_sent' = IF store THEN thr_bytes_sent ELSE thr_last_bytes_sent
        /\ thr_last_bytes_received' =
              IF store THEN thr_bytes_received ELSE thr_last_bytes_received
        /\ thr_stored_at' = IF store THEN thr_now ELSE thr_stored_at
        /\ thr_last_update' = thr_now
        /\ thr_sample' = IF due
                         THEN [applied |-> TRUE, time_diff |-> time_diff,
                               delta_sent |-> thr_bytes_sent - thr_last_bytes_sent,
                               delta_received |-> thr_bytes_received - thr_last_bytes_received]
                         ELSE NoSample
        /\ UNCHANGED <<thr_now, thr_bytes_sent, thr_bytes_received>>
        /\ ThrFrame

\* control_port.rs:1101, 1129-1131  the I/O task counts the bytes it writes and reads
ThrTransfer ==
    /\ thr_bytes_sent + thr_bytes_received + ThrChunk <= MaxThrBytes
    /\ \/ thr_bytes_sent' = thr_bytes_sent + ThrChunk /\ UNCHANGED thr_bytes_received
       \/ thr_bytes_received' = thr_bytes_received + ThrChunk /\ UNCHANGED thr_bytes_sent
    /\ UNCHANGED <<thr_now, thr_last_bytes_sent, thr_last_bytes_received, thr_last_update,
                   thr_sent_bps, thr_received_bps, thr_stored_at, thr_sample>>
    /\ ThrFrame

\* the wall clock
ThrAdvance ==
    /\ thr_now + ThrTick <= MaxThrTime
    /\ thr_now' = thr_now + ThrTick
    /\ UNCHANGED <<thr_bytes_sent, thr_bytes_received, thr_last_bytes_sent,
                   thr_last_bytes_received, thr_last_update, thr_sent_bps, thr_received_bps,
                   thr_stored_at, thr_sample>>
    /\ ThrFrame

NextThr ==
    \/ UpdateThroughput
    \/ ThrTransfer
    \/ ThrAdvance


(***************************************************************************)
(* ==========================  RASTER (artnet/lib.rs)  =================== *)
(***************************************************************************)

\* Bound: set_pix / get_pix calls on one raster.
MaxPixOps == 2

\* (width, height, length) of the rasters
RasterSizes == { <<2, 2, 2>>, <<2, 3, 1>>, <<3, 1, 1>>, <<1, 1, 2>> }

\* orientation arguments, each coordinate as its characters: signed
\* permutations of the axes
Orientations ==
    { << <<"X">>, <<"Y">>, <<"Z">> >>,
      << <<"-", "X">>, <<"-", "Y">>, <<"-", "Z">> >>,
      << <<"X">>, <<"-", "Y">>, <<"Z">> >>,
      << <<"Y">>, <<"X">>, <<"Z">> >>,
      << <<"Z">>, <<"-", "Y">>, <<"X">> >>,
      << <<"-", "Y">>, <<"Z">>, <<"-", "X">> >> }

Black == [red |-> 0, green |-> 0, blue |-> 0]
PixColors == {Cell(0), Cell(1)}

NoPixResult == [op |-> "none", x |-> 0, y |-> 0, z |-> 0, outcome |-> "none", value |-> Black]

\* artnet/lib.rs:116-129  compute_transform: the axis is the last character,
\* the sign is negative when the first is '-'
compute_transform(orientation) ==
    [i \in 1 .. Len(orientation) |->
        LET coord == orientation[i]
            axis == coord[Len(coord)]
        IN  << IF axis = "X" THEN 0 ELSE IF axis = "Y" THEN 1 ELSE 2,
               IF coord[1] = "-" THEN 0 - 1 ELSE 1 >>]

\* the raster before Raster::new
InitRas ==
    /\ ras_pc = "none"
    /\ ras_width = 0
    /\ ras_height = 0
    /\ ras_length = 0
    /\ ras_transform = <<>>
    /\ ras_data = <<>>
    /\ ras_ops = 0
    /\ ras_result = NoPixResult

\* artnet/lib.rs:95-114  Raster::new
RasterNew(size, orientation) ==
    /\ ras_pc = "none"
    /\ ras_pc' = "live"
    /\ ras_width' = size[1]
    /\ ras_height' = size[2]
    /\ ras_length' = size[3]
    /\ ras_transform' = compute_transform(orientation)
    /\ ras_data' = [i \in 0 .. (size[1] * size[2] * size[3] - 1) |-> Black]
    /\ UNCHANGED <<ras_ops, ras_result>>
    /\ RasFrame

\* artnet/lib.rs:131-151  transform_coords
transform_coords(x, y, z) ==
    LET coords == <<x, y, z>>
        max_val(axis) == IF axis = 0 THEN ras_width - 1
                         ELSE IF axis = 1 THEN ras_height - 1 ELSE ras_length - 1
    IN  [i \in 1 .. 3 |->
            IF ras_transform[i][2] = 1 THEN coords[ras_transform[i][1] + 1]
            ELSE max_val(ras_transform[i][1]) - coords[ras_transform[i][1] + 1]]

\* artnet/lib.rs:174-176, 223-224  idx
PixIndex(x, y, z) ==
    LET t == transform_coords(x, y, z)
    IN  t[2] * ras_width + t[1] + t[3] * ras_width * ras_height

\* artnet/lib.rs:154-171, 217  the bounds check of set_pix and get_pix
PixInRange(x, y, z) == x < ras_width /\ y < ras_height /\ z < ras_length

PixStart ==
    /\ ras_pc = "live"
    /\ ras_ops < MaxPixOps
    /\ ras_ops' = ras_ops + 1
    /\ UNCHANGED <<ras_width, ras_height, ras_length, ras_transform>>

\* artnet/lib.rs:153-179  set_pix; data[idx] panics when idx is not an index
set_pix(x, y, z, color) ==
    /\ PixStart
    /\ LET idx == PixIndex(x, y, z)
           res == [op |-> "set_pix", x |-> x, y |-> y, z |-> z, outcome |-> "ok",
                   value |-> color]
       IN  IF ~PixInRange(x, y, z)
           THEN /\ ras_result' = [res EXCEPT !.outcome = "ValueError"]
                /\ UNCHANGED <<ras_pc, ras_data>>
           ELSE IF idx \notin DOMAIN ras_data
           THEN /\ ras_result' = [res EXCEPT !.outcome = "panic"]
                /\ ras_pc' = "panicked"
                /\ UNCHANGED ras_data
           ELSE /\ ras_result' = res
                /\ ras_data' = [ras_data EXCEPT ![idx] = color]
                /\ UNCHANGED ras_pc
    /\ RasFrame

\* artnet/lib.rs:216-226  get_pix
get_pix(x, y, z) ==
    /\ PixStart
    /\ LET idx == PixIndex(x, y, z)
           res == [op |-> "get_pix", x |-> x, y |-> y, z |-> z, outcome |-> "ok",
                   value |-> Black]
       IN  IF ~PixInRange(x, y, z)
           THEN /\ ras_result' = [res EXCEPT !.outcome = "ValueError"]
                /\ UNCHANGED ras_pc
           ELSE IF idx \notin DOMAIN ras_data
           THEN /\ ras_result' = [res EXCEPT !.outcome = "panic"]
                /\ ras_pc' = "panicked"
           ELSE /\ ras_result' = [res EXCEPT !.value = ras_data[idx]]
                /\ UNCHANGED ras_pc
    /\ UNCHANGED ras_data
    /\ RasFrame

\* coordinates of the calls: in range and one past the end of each axis
PixCoords == (0 .. 3) \X (0 .. 3) \X (0 .. 2)
PixArgs == {p \in PixCoords : p[1] <= ras_width /\ p[2] <= ras_height /\ p[3] <= ras_length}

RasNew == \E size \in RasterSizes, orientation \in Orientations : RasterNew(size, orientation)
RasSet == \E p \in PixArgs, color \in PixColors : set_pix(p[1], p[2], p[3], color)
RasGet == \E p \in PixArgs : get_pix(p[1], p[2], p[3])

NextRas ==
    \/ RasNew
    \/ RasSet
    \/ RasGet


(***************************************************************************)
(* =====  CONTROL PORT MANAGER AND WEB MONITOR (control_port.rs)  ======== *)
(***************************************************************************)

\* DIPs of config.controller_addresses, and a DIP that is not configured
ConfiguredDips == {"1", "2", "3"}
RequestDips == ConfiguredDips \cup {"9"}

NoResponse == [route |-> "none", dip |-> "", status |-> 0, listed |-> {}]

\* control_port.rs:576-584  ControlPortManager::new
InitWeb ==
    /\ mgr_pc = "new"
    /\ mgr_ports = {}
    /\ web_ports = {}
    /\ web_started = FALSE
    /\ web_response = NoResponse

\* control_port.rs:672-681  impl Clone for ControlPortManager: control_ports
\* is cloned with DashMap::clone, which builds a new map of the entries
ManagerClonePorts(ports) == ports

\* control_port.rs:586-602  initialize: one iteration of the loop, in the
\* iteration order of the configuration map
InitializeInsert(dip) ==
    /\ mgr_pc \in {"new", "initializing"}
    /\ dip \in ConfiguredDips \ mgr_ports
    /\ mgr_ports' = mgr_ports \cup {dip}
    /\ mgr_pc' = IF mgr_ports' = ConfiguredDips THEN "ready" ELSE "initializing"
    /\ UNCHANGED <<web_ports, web_started, web_response>>
    /\ WebFrame

\* control_port.rs:617-641  start_web_monitor_with_full_config: the monitor
\* is built on Arc::new(self.clone()) and its server is spawned
StartWebMonitor ==
    /\ ~web_started
    /\ web_started' = TRUE
    /\ web_ports' = ManagerClonePorts(mgr_ports)
    /\ UNCHANGED <<mgr_pc, mgr_ports, web_response>>
    /\ WebFrame

\* control_port.rs:659-669  shutdown: control_ports.clear()
ShutdownClear ==
    /\ mgr_pc = "ready"
    /\ mgr_ports' = {}
    /\ mgr_pc' = "shutdown"
    /\ UNCHANGED <<web_ports, web_started, web_response>>
    /\ WebFrame

\* web_monitor.rs:349-354  GET /api/control_ports
GetControlPorts ==
    /\ web_started
    /\ web_response' = [route |-> "control_ports", dip |-> "", status |-> 200,
                        listed |-> web_ports]
    /\ UNCHANGED <<mgr_pc, mgr_ports, web_ports, web_started>>
    /\ WebFrame

\* web_monitor.rs:382-392  GET /api/control_ports/:dip/stats
GetControlPortStats(dip) ==
    /\ web_started
    /\ web_response' = [route |-> "stats", dip |-> dip,
                        status |-> IF dip \in web_ports THEN 200 ELSE 404,
                        listed |-> {}]
    /\ UNCHANGED <<mgr_pc, mgr_ports, web_ports, web_started>>
    /\ WebFrame

NextWeb ==
    \/ \E dip \in ConfiguredDips : InitializeInsert(dip)
    \/ StartWebMonitor
    \/ ShutdownClear
    \/ GetControlPorts
    \/ \E dip \in RequestDips : GetControlPortStats(dip)

InitExt == InitCmt /\ InitThr /\ InitRas /\ InitWeb

(***************************************************************************)
(* ==========================  SPECIFICATIONS  =========================== *)
(***************************************************************************)

\* The state after construction of every subsystem.
Init ==
    /\ InitMap /\ InitMon /\ InitDisplay /\ InitPort /\ InitCall /\ InitBeat /\ InitShut
    /\ InitBtn /\ InitArt /\ InitLed /\ InitLock /\ InitExt

\* commit_display on every pair of buffer contents of DiffBuffers
InitDiff ==
    /\ InitMap /\ InitMon /\ InitPort /\ InitCall /\ InitBeat /\ InitShut /\ InitBtn /\ InitArt /\ InitLed
    /\ InitLock /\ InitExt
    /\ front_buffer \in DiffBuffers
    /\ back_buffer \in DiffBuffers
    /\ lcd = front_buffer
    /\ commit_result = <<>>
    /\ applied = 0
    /\ diff_pc = "commit"

SpecDiff == InitDiff /\ [][NextDiff]_vars

SpecPort == Init /\ [][NextPort]_vars

SpecCall == Init /\ [][NextCall]_vars

SpecBeat == Init /\ [][NextBeat]_vars

SpecShut == Init /\ [][NextShut]_vars

SpecBtn == Init /\ [][NextBtn]_vars

SpecArt == Init /\ [][NextArt]_vars

SpecLed == Init /\ [][NextLed]_vars

SpecLock == Init /\ [][NextLock]_vars

SpecCmt == Init /\ [][NextCmt]_vars

SpecThr == Init /\ [][NextThr]_vars

SpecRas == Init /\ [][NextRas]_vars

SpecWeb == Init /\ [][NextWeb]_vars

\* The LED task under fair scheduling: led_update_loop is a spawned task whose
\* recv completes when a request is queued, and its refresh functions only
\* wait for locks that no task holds across an await (main.rs:580-595).
FairLed ==
    /\ WF_vars(LedRecv)
    /\ WF_vars(UpdateBankSelectLeds)
    /\ WF_vars(RefreshGridLeds)
    /\ WF_vars(RefreshFaderColumnLeds)

SpecLedLive == Init /\ [][NextLed]_vars /\ FairLed

\* The control port under fair scheduling, with a device that accepts
\* connections: the supervisor's timers keep firing and connect succeeds
\* (control_port.rs:885-921, 958), attempt_connection runs to its end and the
\* spawned handle_connection task runs (977-991, 1027-1053, 1113-1114).
FairPort ==
    /\ WF_vars(AttemptConnection(TRUE))
    /\ WF_vars(ReplaceRx)
    /\ WF_vars(ReplaceTxAndSpawn)
    /\ WF_vars(IoTake)
    /\ WF_vars(IoDisconnect)

SpecLive == Init /\ [][NextPort]_vars /\ FairPort

SpecMap == Init /\ [][NextMap]_vars

SpecMon == Init /\ [][NextMon]_vars

(***************************************************************************)
(* ==============================  CLAIMS  =============================== *)
(***************************************************************************)

Range(s) == {s[k] : k \in 1 .. Len(s)}

\* The bundle that a tick starting in the current state puts together.
TickValues ==
    ComputeOscValues(osc_sent_values, mapping, fader_override_active,
                     fader_override_value, latest_lfo_values, current_lfo_bank)
TickBundle == MessagesForBundle(0, TickValues, osc_sent_values)

\* C1: Mapping mutual exclusivity.  After any sequence of MIDI events, for
\* every effect column c and every LFO bank b at most one row r with
\* r / 8 = b has mapping[r][c] = true.
C1_MutualExclusivity ==
    /\ mapping \subseteq Rows \X Cols
    /\ \A p \in mapping : \A q \in mapping :
            (p[2] = q[2] /\ p[1] \div NUM_ROWS = q[1] \div NUM_ROWS) => p[1] = q[1]

\* Row 0 drove column 0 (its value 0.25 was sent), then the press at visible
\* (1,0) mapped row 1 and unmapped row 0.
C1_Witness ==
    /\ events = 3
    /\ last_midi = <<144, NOTE_GRID(1, 0), 127>>
    /\ osc_sent_values[0] = F32_QUARTER
    /\ mapping = {<<1, 0>>}

\* The lowest LFO bank whose fader overrides column c.
LowestOverrideBank(c) ==
    CHOOSE b \in LfoBanks :
        /\ <<b, c>> \in fader_override_active
        /\ \A b2 \in LfoBanks : <<b2, c>> \in fader_override_active => b <= b2

\* C8: Fader precedence.  In every tick, for every column c with an active
\* fader override in at least one LFO bank, the computed value is
\* fader_override_value[b0][c] for the lowest such bank b0, whatever the
\* mapping, the LFO values and the selected banks are.
C8_FaderPrecedence ==
    [][(sender_pc = "tick" /\ sender_pc' = "send") =>
        \A c \in Cols :
            (\E b \in LfoBanks : <<b, c>> \in fader_override_active) =>
                next_osc_values_to_send'[c] = fader_override_value[LowestOverrideBank(c)][c]
      ]_vars

\* A tick has computed column 0 while banks 0 and 1 both override it with
\* different values, bank 1 is selected and an LFO is mapped to the column.
C8_Witness ==
    /\ sender_pc = "send"
    /\ {<<0, 0>>, <<1, 0>>} \subseteq fader_override_active
    /\ fader_override_value[0][0] # fader_override_value[1][0]
    /\ current_lfo_bank = 1
    /\ \E r \in Rows : <<r, 0>> \in mapping
    /\ next_osc_values_to_send[0] = fader_override_value[0][0]

\* What the send step of a tick does to the bundle and the sent values, where
\* differs(c) says whether column c counts as changed.
BundleShape(differs(_)) ==
    /\ \A c \in Cols : Cardinality({k \in 1 .. Len(bundle') : bundle'[k][1] = c}) <= 1
    /\ \A c \in Cols : (\E k \in 1 .. Len(bundle') : bundle'[k][1] = c) <=> differs(c)
    /\ \A k \in 1 .. Len(bundle') :
            /\ bundle'[k][1] \in Cols
            /\ bundle'[k][2] = next_osc_values_to_send[bundle'[k][1]]
    /\ (bundle' = <<>>) <=> (send_result' = "none")
    /\ \A c \in Cols :
            IF send_result' = "ok" /\ (\E k \in 1 .. Len(bundle') : bundle'[k][1] = c)
            THEN osc_sent_values'[c] = next_osc_values_to_send[c]
            ELSE osc_sent_values'[c] = osc_sent_values[c]

DiffersByMoreThanEpsilon(c) ==
    Abs(next_osc_values_to_send[c] - osc_sent_values[c]) > F32_EPSILON

DiffersAtAll(c) == next_osc_values_to_send[c] # osc_sent_values[c]

\* C9 (as amended): Change-only send.  In every tick the sender puts at most
\* one message per column into the bundle, includes a column exactly when its
\* computed value differs from the last successfully sent value by more than
\* f32::EPSILON, sends no bundle when no column is included, and updates the
\* last-sent value of a column only when the bundle containing it was sent
\* without error.
C9_ChangeOnlySend ==
    [][(sender_pc = "send" /\ sender_pc' = "tick") => BundleShape(DiffersByMoreThanEpsilon)]_vars

\* C9 as stated: a column is included exactly when its computed value
\* differs from the value last sent.
C9_Original ==
    [][(sender_pc = "send" /\ sender_pc' = "tick") => BundleShape(DiffersAtAll)]_vars

\* A tick has computed for column 0 a value that differs from the last
\* sent 0.25 by less than f32::EPSILON.
C9_Witness ==
    /\ sender_pc = "send"
    /\ osc_sent_values[0] = F32_QUARTER
    /\ next_osc_values_to_send[0] = F32_QUARTER + 1

\* Scenario S5: its state before the fader is moved, and after the tick that
\* followed CC 48 = 64.
S5BeforeCC ==
    /\ current_lfo_bank = 0 /\ current_effect_bank = 0
    /\ <<0, 0>> \in mapping
    /\ latest_lfo_values[0] = F32_QUARTER
    /\ fader_override_active = {}
    /\ osc_sent_values[0] \in {0 - F32_ONE, F32_QUARTER}

S5AfterCCTick ==
    /\ current_lfo_bank = 0 /\ current_effect_bank = 0
    /\ <<0, 0>> \in mapping
    /\ latest_lfo_values[0] = F32_QUARTER
    /\ fader_override_active = {<<0, 0>>}
    /\ fader_override_value[0][0] = CcToFloat(64)
    /\ osc_sent_values[0] = CcToFloat(64)

MidiStep(m) == events' = events + 1 /\ last_midi' = m /\ latest_lfo_values' = latest_lfo_values

S5_FaderPart ==
    (S5BeforeCC /\ MidiStep(<<176, 48, 64>>)) => (<<0, CcToFloat(64)>> \in Range(TickBundle))'

\* C10 (as amended): scenario S5.  After CC 48 = 64 the next tick sends /effect/1 = 64/127;
\* the grid press at visible (0,0) then clears the fader override of column 0
\* and toggles mapping[0][0] off, so the next tick sends no /effect/1 message
\* and the column stays at 64/127.
C10_ScenarioS5 ==
    [][/\ S5_FaderPart
       /\ (S5AfterCCTick /\ MidiStep(<<144, NOTE_GRID(0, 0), 127>>)) =>
            /\ \A b \in LfoBanks : <<b, 0>> \notin fader_override_active'
            /\ <<0, 0>> \notin mapping'
            /\ TickValues'[0] = CcToFloat(64)
            /\ \A msg \in Range(TickBundle)' : msg[1] # 0
      ]_vars

\* C10 as stated: after the grid press the next tick sends /effect/1 = 0.25.
C10_Original ==
    [][/\ S5_FaderPart
       /\ (S5AfterCCTick /\ MidiStep(<<144, NOTE_GRID(0, 0), 127>>)) =>
            /\ \A b \in LfoBanks : <<b, 0>> \notin fader_override_active'
            /\ (<<0, F32_QUARTER>> \in Range(TickBundle))'
      ]_vars

\* The whole of S5 has run: 0.25 on LFO 1, press (0,0), CC 48 = 64, a tick
\* that sent 64/127, press (0,0), and a tick that sent nothing.
C10_Witness ==
    /\ events = 4
    /\ last_midi = <<144, NOTE_GRID(0, 0), 127>>
    /\ current_lfo_bank = 0 /\ current_effect_bank = 0
    /\ latest_lfo_values[0] = F32_QUARTER
    /\ fader_override_active = {}
    /\ fader_override_value[0][0] = CcToFloat(64)
    /\ mapping = {}
    /\ osc_sent_values[0] = CcToFloat(64)
    /\ sender_pc = "tick" /\ send_result = "none" /\ bundle = <<>>

Registered(k) == k \in DOMAIN controllers

\* C3: Cooldown holds against successes.  report_failure at t0 sets
\* cooldown_until = t0 + T; until then nothing but a later failure or a
\* registration changes it, and every report_success at t < t0 + T changes
\* nothing but last_success, leaving is_connecting = true, is_routable = false.
C3_CooldownHolds ==
    [][\A k \in MonKeys :
        /\ (Registered(k) /\ ReportControllerFailure(k)) =>
              /\ controllers'[k].cooldown_until = now + cooldown_duration
              /\ controllers'[k].is_connecting /\ ~controllers'[k].is_routable
        /\ (Registered(k) /\ controllers[k].cooldown_until # NoTime
                /\ now < controllers[k].cooldown_until) =>
              /\ controllers[k].is_connecting /\ ~controllers[k].is_routable
              /\ ReportControllerSuccess(k) =>
                    controllers'[k] = [controllers[k] EXCEPT !.last_success = now]
              /\ controllers'[k].cooldown_until # controllers[k].cooldown_until =>
                    (ReportControllerFailure(k) \/ RegisterController(k))
      ]_vars

\* A success was reported after the failure and before the cooldown ended,
\* and the controller is still connecting.
C3_Witness ==
    \E k \in DOMAIN controllers :
        /\ controllers[k].last_failure # NoTime
        /\ controllers[k].last_success > controllers[k].last_failure
        /\ controllers[k].last_success < controllers[k].cooldown_until
        /\ controllers[k].is_connecting /\ ~controllers[k].is_routable

IsPromoted(status) ==
    status.is_routable /\ ~status.is_connecting /\ status.cooldown_until = NoTime

\* C4: Cooldown expiry promotes.  A report_success, or the status update of
\* a stats read, at t >= cooldown_until sets is_routable = true,
\* is_connecting = false and cooldown_until = None; and no stats read returns
\* a controller that is connecting with a cooldown_until that is not after
\* the read time (the time that the read's status update sampled).
C4_ExpiryPromotes ==
    /\ [][\A k \in MonKeys :
            (Registered(k) /\ controllers[k].cooldown_until # NoTime
                /\ now >= controllers[k].cooldown_until) =>
              /\ ReportControllerSuccess(k) => IsPromoted(controllers'[k])
              /\ GetStatsUpdate => IsPromoted(controllers'[k])
          ]_vars
    /\ [](\A k \in DOMAIN stats_snapshot.controllers :
            stats_snapshot.controllers[k].is_connecting =>
                /\ stats_snapshot.controllers[k].cooldown_until # NoTime
                /\ stats_snapshot.controllers[k].cooldown_until > stats_snapshot.time)

\* C2: Display diff correctness.  For every pair of front/back buffer
\* contents, applying the messages returned by commit_display in order to a
\* display that shows front_buffer yields exactly back_buffer, and when
\* commit_display has returned front_buffer equals back_buffer.
C2_DiffCorrect ==
    diff_pc = "returned" =>
        /\ front_buffer = back_buffer
        /\ applied = Len(commit_result) => lcd = back_buffer

\* commit_display returned two writes for row 0, the first merging two
\* changes three columns apart, and a write for row 3; all were applied.
C2_Witness ==
    /\ diff_pc = "returned"
    /\ commit_result = <<LcdWrite(0, 0, <<"A", " ", "A", " ", " ">>),
                         LcdWrite(9, 0, <<"A">>),
                         LcdWrite(19, 3, <<"B">>)>>
    /\ applied = 3
    /\ lcd = back_buffer

\* ---- control port: connections and the outgoing channel ----

IsPrefix(a, b) == Len(a) <= Len(b) /\ \A i \in 1 .. Len(a) : a[i] = b[i]

\* the serial numbers of the messages enqueued on channel c, in enqueue order
EnqueuedSerials(c) == [i \in 1 .. Len(enqueued[c]) |-> enqueued[c][i][1]]

\* the serial numbers of the messages that were enqueued while connected = false
EnqueuedWhileDisconnected ==
    {e[1] : e \in {en \in UNION {Range(enqueued[c]) : c \in Chans} : ~en[2]}}

ConnectionEnded(k) == io_pc[k] \in {"exited", "done"}

\* what every state satisfies for C5
C5_WireState ==
    /\ \A k \in Conns :
         IF io_chan[k] = None THEN wire[k] = <<>>
         ELSE /\ io_chan[k] = k
              /\ IsPrefix(wire[k], EnqueuedSerials(io_chan[k]))
    /\ \A k1, k2 \in Conns : \A i \in 1 .. Len(wire[k1]) : \A j \in 1 .. Len(wire[k2]) :
         wire[k1][i] = wire[k2][j] => k1 = k2 /\ i = j
    /\ \A k \in Conns : \A c \in Chans :
         c # k => Range(wire[k]) \cap Range(EnqueuedSerials(c)) = {}
    /\ \A k \in Conns : Range(wire[k]) \cap EnqueuedWhileDisconnected = {}

\* C5: the messages written to the socket during connection k are a prefix, in
\* enqueue order and without duplicates, of the messages enqueued on that
\* connection's own channel; nothing enqueued on another channel, nothing
\* enqueued while disconnected and nothing left unwritten when a connection
\* ended is ever written, on that connection or on a later one.
C5_OutgoingFifo ==
    /\ []C5_WireState
    /\ [][\A k \in Conns : ConnectionEnded(k) => wire'[k] = wire[k]]_vars

\* connection 1 wrote its first two messages in enqueue order and ended with a
\* third enqueued and not written; the task of connection 2 is in its loop
C5_Witness ==
    /\ Len(enqueued[1]) = 3
    /\ wire[1] = <<EnqueuedSerials(1)[1], EnqueuedSerials(1)[2]>>
    /\ io_pc[1] = "done"
    /\ io_pc[2] = "loop"
    /\ wire[2] = <<>>

InLoop == {k \in Conns : io_pc[k] = "loop"}

\* C6: at most one handle_connection task is inside its loop; a task is
\* spawned only when no other task is spawned or in its loop; an attempt is
\* made only when connected is false; connected becomes false only in the step
\* of a task whose loop has exited, and then no task is in its loop.
C6_SingleConnection ==
    /\ [](Cardinality(InLoop) <= 1)
    /\ [][/\ (\E ok \in BOOLEAN : AttemptConnection(ok)) => ~connected
          /\ \A k \in Conns :
               io_pc[k] = "none" /\ io_pc'[k] = "spawned"
                 => \A j \in Conns \ {k} : io_pc[j] \notin {"spawned", "loop"}
          /\ connected /\ ~connected'
               => /\ \E k \in Conns : io_pc[k] = "exited" /\ io_pc'[k] = "done"
                  /\ \A j \in Conns : io_pc'[j] # "loop"]_vars

\* the first connection has ended and the task of the second is in its loop
C6_Witness ==
    /\ io_pc[1] = "done"
    /\ wire[1] # <<>>
    /\ io_pc[2] = "loop"
    /\ connected

\* connected, the supervisor idle, the connection's task in its loop on the
\* current channel, nothing left to write, no refresh pending
Quiescent ==
    /\ connected
    /\ sup_pc = "idle"
    /\ \E k \in Conns : io_pc[k] = "loop" /\ io_chan[k] = tx_chan
    /\ chan_queue[tx_chan] = <<>>
    /\ \A k \in Conns : refresh_pc[k] # "sleeping"

\* C7: in every quiescent state of a connected device front_buffer equals the
\* content the device has been told to show.
C7_FrontMirrorsDevice == Quiescent => front_buffer = lcd

\* ---- control port: display calls ----

InRange(x, y) == x < DISPLAY_WIDTH /\ y < DISPLAY_HEIGHT
Fits(x, text) == x + Len(text) <= DISPLAY_WIDTH

\* the call before this one was write_display(x, y, text) with in-range x, y
\* and a text that fits, and the buffers are those it leaves on a blank
\* controller state
WrittenOnBlank ==
    /\ last_op.kind = "write"
    /\ InRange(last_op.x, last_op.y)
    /\ Fits(last_op.x, last_op.text)
    /\ front_buffer = BlankBuffer
    /\ back_buffer = WriteDisplay(BlankBuffer, last_op.x, last_op.y, last_op.text)

CommitStep == last_op'.kind = "commit" /\ op_count' = op_count + 1

\* the text is not empty, neither starts nor ends with a space and has no run
\* of 4 or more spaces
SolidText(text) ==
    /\ text # <<>>
    /\ text[1] # " "
    /\ text[Len(text)] # " "
    /\ ~\E i \in 1 .. (Len(text) - 3) : \A j \in i .. (i + 3) : text[j] = " "

\* C11 (as stated): from blank buffers, write_display(x, y, text) with in-range
\* x, y and a text that fits, followed by commit_display, returns exactly
\* <<LcdWrite(x, y, text)>>.
C11_Original ==
    [][WrittenOnBlank /\ CommitStep
         => commit_result' = <<LcdWrite(last_op.x, last_op.y, last_op.text)>>]_vars

\* C11 (amended): the same, for a text that is not empty, neither starts nor
\* ends with a space and has no run of 4 or more spaces.
C11_DiffMinimality ==
    [][WrittenOnBlank /\ SolidText(last_op.text) /\ CommitStep
         => commit_result' = <<LcdWrite(last_op.x, last_op.y, last_op.text)>>]_vars

\* write_display(0, 1, "A   B") on a new controller state, then commit_display
C11_Witness ==
    /\ op_count = 2
    /\ last_op.kind = "commit"
    /\ back_buffer = WriteDisplay(BlankBuffer, 0, 1, <<"A", " ", " ", " ", "B">>)
    /\ commit_result = <<LcdWrite(0, 1, <<"A", " ", " ", " ", "B">>)>>

\* C12 (as stated): a commit_display that directly follows a commit_display
\* returns no message, whatever the buffers hold.
C12_Original ==
    [][last_op.kind = "commit" /\ CommitStep => commit_result' = <<>>]_vars

\* C12 (amended): a commit_display that directly follows a commit_display
\* returns no message when back_buffer is not entirely spaces.
C12_CommitIdempotence ==
    [][last_op.kind = "commit" /\ ~AllSpaces(back_buffer) /\ CommitStep
         => commit_result' = <<>>]_vars

\* a write_display and two commit_display calls, the second returning nothing
C12_Witness ==
    /\ op_count = 3
    /\ last_op.kind = "commit"
    /\ ~AllSpaces(back_buffer)
    /\ front_buffer = back_buffer
    /\ commit_result = <<>>

\* ---- control port: the diff of commit_display ----

Differs(front, back, y, x) == front[y][x] # back[y][x]

\* the maximal ranges <<first, last>> of differing cells of row y
MaximalRanges(front, back, y) ==
    {r \in XS \X XS :
        /\ r[1] <= r[2]
        /\ \A x \in r[1] .. r[2] : Differs(front, back, y, x)
        /\ r[1] = 0 \/ ~Differs(front, back, y, r[1] - 1)
        /\ r[2] = DISPLAY_WIDTH - 1 \/ ~Differs(front, back, y, r[2] + 1)}

\* the messages of res that write into row y
RowWrites(res, y) == SelectSeq(res, LAMBDA m : m.kind = "LcdWrite" /\ m.y = y)

\* the message that writes cells first .. last of row y from back
WriteOf(back, y, first, last) == LcdWrite(first, y, RowSlice(back[y], first, last + 1))

\* what commit_display returns for the rows that have exactly two maximal
\* ranges of differing cells
TwoRangesRule(front, back, res) ==
    \A y \in YS : \A r1, r2 \in MaximalRanges(front, back, y) :
        r1[2] < r2[1] /\ Cardinality(MaximalRanges(front, back, y)) = 2
          => IF r2[1] - r1[2] - 1 <= 3
             THEN RowWrites(res, y) = <<WriteOf(back, y, r1[1], r2[2])>>
             ELSE RowWrites(res, y) =
                    <<WriteOf(back, y, r1[1], r1[2]), WriteOf(back, y, r2[1], r2[2])>>

CommitReturns == diff_pc = "commit" /\ diff_pc' = "returned"

\* C13 (as stated): two maximal ranges of differing cells on a row separated by
\* at most 3 unchanged cells give exactly one LcdWrite from the first differing
\* cell to the last, with back-buffer text; separated by 4 or more they give
\* two LcdWrites, one per range.
C13_Original ==
    [][CommitReturns => TwoRangesRule(front_buffer, back_buffer, commit_result')]_vars

\* C13 (amended): the same, when back_buffer is not entirely spaces.
C13_MergeThreshold ==
    [][CommitReturns /\ ~AllSpaces(back_buffer)
         => TwoRangesRule(front_buffer, back_buffer, commit_result')]_vars

\* commit_display has returned one LcdWrite for the differing cells 0 and 4,
\* which are 3 unchanged cells apart
C13_Witness ==
    /\ diff_pc = "returned"
    /\ applied = 0
    /\ commit_result = <<LcdWrite(0, 0, <<"A", " ", " ", " ", "A">>)>>

\* C14: when back_buffer is entirely spaces and front_buffer is not,
\* commit_display returns exactly <<LcdClear>> and leaves front_buffer
\* entirely spaces.
C14_AllBlankShortcut ==
    [][CommitReturns /\ AllSpaces(back_buffer) /\ ~AllSpaces(front_buffer)
         => commit_result' = <<LcdClear>> /\ AllSpaces(front_buffer')]_vars

\* commit_display has returned for a blank back buffer and a front buffer (still
\* shown by the display) with text in two rows
C14_Witness ==
    /\ diff_pc = "returned"
    /\ applied = 0
    /\ lcd[0][0] = "A"
    /\ lcd[3][DISPLAY_WIDTH - 1] = "B"
    /\ AllSpaces(back_buffer)
    /\ AllSpaces(front_buffer)
    /\ commit_result = <<LcdClear>>

WriteStep == last_op'.kind = "write" /\ op_count' = op_count + 1

\* C15: write_display(x, y, text) sets the back-buffer cells (c, y) with
\* x <= c < min(x + len(text), 20) to the characters of text and changes no
\* other cell and not front_buffer; with x >= 20 or y >= 4 it changes nothing.
C15_WriteFrame ==
    [][WriteStep =>
         LET x == last_op'.x
             y == last_op'.y
             text == last_op'.text
         IN  /\ front_buffer' = front_buffer
             /\ DOMAIN back_buffer' = YS
             /\ \A r \in YS :
                  /\ DOMAIN back_buffer'[r] = XS
                  /\ \A c \in XS :
                       back_buffer'[r][c] =
                         IF /\ InRange(x, y)
                            /\ r = y
                            /\ x <= c
                            /\ c < Min(x + Len(text), DISPLAY_WIDTH)
                         THEN text[c - x + 1]
                         ELSE back_buffer[r][c]]_vars

\* write_display(18, 1, "ABC"), cut at the last column, on a back buffer that
\* already held "A" at the start of the row
C15_Witness ==
    /\ op_count = 2
    /\ last_op = [kind |-> "write", x |-> 18, y |-> 1, text |-> <<"A", "B", "C">>]
    /\ back_buffer[1][0] = "A"
    /\ back_buffer[1][18] = "A"
    /\ back_buffer[1][19] = "B"
    /\ front_buffer = BlankBuffer

\* ---- control port: heartbeat tracking ----

\* C16: in every stats snapshot, heartbeat_received_active implies a heartbeat
\* line received no more than 3 s before the snapshot, and noop_sent_active
\* implies a Noop enqueued no more than 3 s before the snapshot.
C16_FreshFlags ==
    /\ beat_stats.heartbeat_received_active
         => /\ beat_stats.last_heartbeat_received # NoTime
            /\ beat_stats.time - beat_stats.last_heartbeat_received
                 <= 3 * TICKS_PER_SECOND
    /\ beat_stats.noop_sent_active
         => /\ beat_stats.noop_enqueued # NoTime
            /\ beat_stats.time - beat_stats.noop_enqueued <= 3 * TICKS_PER_SECOND

\* ---- control port: shutdown ----

\* C17: after ControlPortManager::shutdown has returned, the supervisor and the
\* forwarding task are stopped, no handle_connection task is in its read/write
\* loop, nothing more is written to a socket, no connection is made, and the
\* connected flags that the connected() and get_stats queries report are false.
C17_ShutdownComplete ==
    /\ [](shutdown_done =>
            /\ sup_pc = "stopped"
            /\ fwd_pc = "stopped"
            /\ InLoop = {}
            /\ ~connected
            /\ ~port_connected)
    /\ [][shutdown_done => wire' = wire /\ conn_count' = conn_count]_vars

\* ---- control port: reconnection ----

Disconnected == ~connected /\ sup_pc \in {"initial", "idle"}

\* C18: whenever the device is disconnected the supervisor can make another
\* attempt, however many it has made; and with a device that accepts
\* connections, a device that is marked disconnected or whose
\* handle_connection task has left its loop becomes connected with a task in
\* its loop (as long as the model has a connection left to establish).
C18_ReconnectLiveness ==
    /\ [](Disconnected => ENABLED AttemptConnection(FALSE))
    /\ ((~connected \/ InLoop = {}) /\ conn_count < MaxConn) ~> (connected /\ InLoop # {})

\* the first connection ended before anything was written, and the device is
\* connected again with the task of the second connection in its loop
C18_Witness ==
    /\ conn_count = 2
    /\ io_pc[1] = "done"
    /\ wire[1] = <<>>
    /\ connected
    /\ sup_pc = "idle"
    /\ InLoop = {2}

\* ---- control port: button fan-out ----

\* the values receiver s got that were parsed after it subscribed
GotSince(s) == SelectSeq(rcv_got[s], LAMBDA e : e > rcv_since[s])

\* nothing is in flight towards listener s
CaughtUp(s) ==
    /\ fwd_pc = "loop"
    /\ fwd_next = Len(ctl_chan)
    /\ rcv_pc[s] = "listening"
    /\ rcv_next[s] = Len(port_chan)

\* C19: every button vector parsed after a subscriber subscribed reaches it,
\* in arrival order and without gaps, unless that subscriber itself received
\* a lag signal; and parsing a button line never waits for the subscribers.
C19_FanOutComplete ==
    /\ \A s \in Receivers :
        /\ \A i, j \in 1 .. Len(rcv_got[s]) : i < j => rcv_got[s][i] < rcv_got[s][j]
        /\ rcv_lag_at[s] = -1 =>
            /\ \A i \in 1 .. Len(GotSince(s)) : GotSince(s)[i] = rcv_since[s] + i
            /\ CaughtUp(s) => Len(GotSince(s)) = btn_count - rcv_since[s]
    /\ btn_count < MaxButtons => ENABLED ButtonLine

\* ---- control port: lag on the button channels ----

\* the values sent on chan after position from
SentAfter(chan, from) == SubSeq(chan, from + 1, Len(chan))

IsSuffix(t, q) ==
    /\ Len(t) <= Len(q)
    /\ SubSeq(q, Len(q) - Len(t) + 1, Len(q)) = t

\* C20: a consumer of button events that observed a lag signal is still in
\* its loop, and once it has caught up it has received every value sent on
\* its channel after that lag.
C20_LagRecovery ==
    /\ fwd_lag_at # -1 =>
        /\ fwd_pc = "loop"
        /\ fwd_next = Len(ctl_chan) => IsSuffix(SentAfter(ctl_chan, fwd_lag_at), fwd_got)
    /\ \A s \in Receivers : rcv_lag_at[s] # -1 =>
        /\ rcv_pc[s] = "listening"
        /\ rcv_next[s] = Len(port_chan) =>
               IsSuffix(SentAfter(port_chan, rcv_lag_at[s]), rcv_got[s])

\* ---- Art-Net serializer ----

IsSync(p) == p.op = "OpSync"

\* C21: a send that returned without error handed exactly one OpSync to the
\* socket, as its last datagram and after OpDmx datagrams only; a send that
\* ended on a socket error handed over no OpSync (and no OpSync is ever
\* followed by another datagram).
C21_SyncTerminates ==
    /\ art_pc = "returned" =>
        /\ art_sent # <<>>
        /\ IsSync(art_sent[Len(art_sent)])
        /\ \A i \in 1 .. Len(art_sent) - 1 : art_sent[i].op = "OpDmx"
    /\ art_pc = "failed" => \A i \in 1 .. Len(art_sent) : ~IsSync(art_sent[i])
    /\ art_pc # "returned" => \A i \in 1 .. Len(art_sent) : ~IsSync(art_sent[i])

\* a send of two layers in several OpDmx datagrams has returned
C21_Witness ==
    /\ art_pc = "returned"
    /\ Len(art_zs) = 2
    /\ Len(art_sent) > 3

\* the (r,g,b) bytes of cells from .. end-1 of data, in linear order
RECURSIVE RgbBytes(_, _, _)
RgbBytes(data, from, end) ==
    IF from >= end THEN <<>>
    ELSE <<data[from + 1].red, data[from + 1].green, data[from + 1].blue>>
         \o RgbBytes(data, from + 1, end)

RECURSIVE Payloads(_)
Payloads(packets) ==
    IF packets = <<>> THEN <<>> ELSE packets[1].payload \o Payloads(Tail(packets))

Ceil(a, b) == (a + b - 1) \div b

\* the step completes the layer at position art_out_z
LayerCompleted ==
    /\ art_pc \in {"layer", "chunks"}
    /\ art_pc' = "layer"
    /\ art_out_z' = art_out_z + 1
    /\ ~LayerSkipped(art_call, art_zs[art_out_z + 1])

LayerPackets == SubSeq(art_sent', art_layer_base' + 1, Len(art_sent'))

\* base_universe + floor(out_z / channel_span) * universes_per_layer
StartUniverseSpec(call, out_z) ==
    call.base_universe + (out_z \div call.channel_span) * call.universes_per_layer

\* what C22 says of the datagrams of one completed layer
LayerRoundTrip(call, out_z, z, packets) ==
    LET cells == call.width * call.height
        cpu == call.channels_per_universe
    IN  /\ Payloads(packets) = RgbBytes(call.data, z * cells, (z + 1) * cells)
        /\ cpu > 0 => Len(packets) = Ceil(3 * cells, cpu)
        /\ \A i \in 1 .. Len(packets) :
            /\ packets[i].op = "OpDmx"
            /\ Len(packets[i].payload) <= cpu
            /\ i < Len(packets) => Len(packets[i].payload) = cpu
            /\ packets[i].length = Len(packets[i].payload)
            /\ packets[i].universe = StartUniverseSpec(call, out_z) + i - 1

\* C22 as stated.
C22_Original ==
    [][(LayerCompleted /\ art_call.brightness2 = 2) =>
        LayerRoundTrip(art_call, art_out_z, art_zs[art_out_z + 1], LayerPackets)]_vars

\* C22: with brightness 1.0, the datagrams of every completed non-skipped
\* layer whose universe numbers stay within 16 bits carry the layer's
\* (r,g,b) bytes in linear order, in ceil(3*W*H / channels_per_universe)
\* OpDmx datagrams of channels_per_universe bytes (the last possibly
\* shorter), with Length equal to the payload length and consecutive
\* universes from the layer's starting universe.
C22_LayerRoundTrip ==
    [][(/\ LayerCompleted
        /\ art_call.brightness2 = 2
        /\ StartUniverseSpec(art_call, art_out_z) + Len(LayerPackets) <= U16) =>
        LayerRoundTrip(art_call, art_out_z, art_zs[art_out_z + 1], LayerPackets)]_vars

\* a layer of 12 bytes went out in three datagrams of 4 bytes, as the second
\* layer of its invocation
C22_Witness ==
    /\ art_pc = "layer"
    /\ art_call.brightness2 = 2
    /\ art_call.channels_per_universe = 4
    /\ art_out_z = 2
    /\ art_layer_base = 3
    /\ Len(art_sent) = 6

\* the step enters the chunk loop of the layer at position art_out_z
LayerStarted == art_pc = "layer" /\ art_pc' = "chunks"

\* the step skips the layer at position art_out_z
LayerSkippedStep ==
    /\ art_pc = "layer"
    /\ art_pc' = "layer"
    /\ art_out_z' = art_out_z + 1
    /\ LayerSkipped(art_call, art_zs[art_out_z + 1])

S1Call ==
    [base_universe |-> 0, width |-> 2, height |-> 1, length |-> 1, brightness2 |-> 2,
     data |-> <<[red |-> 10, green |-> 20, blue |-> 30], [red |-> 40, green |-> 50, blue |-> 60]>>,
     channels_per_universe |-> 510, universes_per_layer |-> 3, channel_span |-> 1,
     z_indices |-> <<"None">>, build |-> "release"]

S1Output ==
    << [op |-> "OpDmx", universe |-> 0, length |-> 6, payload |-> <<10, 20, 30, 40, 50, 60>>],
       [op |-> "OpSync"] >>

ScenarioS1 ==
    \A bld \in {"debug", "release"} :
        (art_call = [S1Call EXCEPT !.build = bld] /\ art_pc = "returned") => art_sent = S1Output

\* C23 as stated.
C23_Original ==
    /\ [][LayerStarted => art_universe' = StartUniverseSpec(art_call, art_out_z)]_vars
    /\ [][LayerSkippedStep => art_sent' = art_sent]_vars
    /\ []ScenarioS1

\* C23: the layer at position out_z starts at universe base_universe +
\* floor(out_z / channel_span) * universes_per_layer whenever that number
\* fits in 16 bits; a layer whose slice exceeds the data emits nothing, and
\* the starting universe of a layer depends only on its position; scenario
\* S1 gives one OpDmx on universe 0 with payload 0A 14 1E 28 32 3C and one
\* OpSync.
C23_StartingUniverse ==
    /\ [][(LayerStarted /\ StartUniverseSpec(art_call, art_out_z) < U16) =>
            art_universe' = StartUniverseSpec(art_call, art_out_z)]_vars
    /\ [][LayerSkippedStep => art_sent' = art_sent]_vars
    /\ []ScenarioS1

\* the third layer of the list starts after the second was skipped, with
\* channel_span 2 and 3 universes per layer: universe base + 3
C23_Witness ==
    /\ art_pc = "chunks"
    /\ art_zs = <<0, 5, 1>>
    /\ art_out_z = 2
    /\ art_call.channel_span = 2
    /\ art_call.universes_per_layer = 3
    /\ art_call.base_universe = 0
    /\ art_universe = 3

\* ---- sender monitor: failures ----

\* C24: every report_controller_failure on a registered controller, in
\* cooldown or not, leaves is_routable = false, is_connecting = true,
\* failure_count one higher and cooldown_until = now + cooldown_duration; and
\* a controller that is not routable becomes routable, other than by a new
\* registration, only at or after the cooldown_until of its latest failure.
C24_FailureRestartsCooldown ==
    [][\A k \in MonKeys : Registered(k) =>
        /\ ReportControllerFailure(k) =>
            /\ ~controllers'[k].is_routable
            /\ controllers'[k].is_connecting
            /\ controllers'[k].failure_count = controllers[k].failure_count + 1
            /\ controllers'[k].last_failure = now
            /\ controllers'[k].cooldown_until = now + cooldown_duration
        /\ (~controllers[k].is_routable /\ controllers'[k].is_routable
                /\ ~RegisterController(k)) =>
            /\ controllers[k].last_failure # NoTime
            /\ controllers[k].cooldown_until # NoTime
            /\ now >= controllers[k].cooldown_until
      ]_vars

\* a second failure was reported during the cooldown of the first and moved
\* cooldown_until from 30 to 40
C24_Witness ==
    \E k \in DOMAIN controllers :
        /\ cooldown_duration = DEFAULT_COOLDOWN
        /\ controllers[k].failure_count = 2
        /\ controllers[k].last_failure = TimeStep
        /\ controllers[k].cooldown_until = TimeStep + DEFAULT_COOLDOWN
        /\ now = TimeStep

\* ---- mapping engine: grid press frame, LFO precedence ----

\* The visible grid positions.
VisRows == 0 .. (NUM_ROWS - 1)
VisCols == 0 .. (NUM_COLS - 1)

\* The step is the handling of a note-on for the grid button at visible (r, c).
GridPressStep(r, c) == ProcessMidiMessage(<<144, NOTE_GRID(r, c), 127>>)

\* C25: a grid press at visible (r_vis, c_vis) with LFO bank lb and effect
\* bank eb toggles mapping[lb*8+r_vis][eb*8+c_vis]; when it turns the entry on
\* it clears the other rows of bank lb in that column; it clears
\* fader_override_active[lb][eb*8+c_vis]; and it leaves unchanged every
\* mapping entry in another column or in a row of another LFO bank, every
\* other override flag, all fader values, all LFO values and both bank
\* indices.  From the zero mapping, pressing (0,0) then (1,0) ends with
\* mapping[1][0] true and mapping[0][0] false.
C25_GridPressFrame ==
    [][\A r_vis \in VisRows : \A c_vis \in VisCols :
        GridPressStep(r_vis, c_vis) =>
            LET lb == current_lfo_bank
                row == current_lfo_bank * NUM_ROWS + r_vis
                col == current_effect_bank * NUM_COLS + c_vis
            IN  /\ (<<row, col>> \in mapping') <=> (<<row, col>> \notin mapping)
                /\ <<row, col>> \in mapping' =>
                        \A r \in VisRows : r # r_vis => <<lb * NUM_ROWS + r, col>> \notin mapping'
                /\ <<lb, col>> \notin fader_override_active'
                /\ \A rc \in Rows \X Cols :
                        (rc[2] # col \/ rc[1] \div NUM_ROWS # lb) =>
                            ((rc \in mapping') <=> (rc \in mapping))
                /\ fader_override_active' \ {<<lb, col>>} = fader_override_active \ {<<lb, col>>}
                /\ fader_override_value' = fader_override_value
                /\ latest_lfo_values' = latest_lfo_values
                /\ current_lfo_bank' = current_lfo_bank
                /\ current_effect_bank' = current_effect_bank
                /\ (mapping = {<<0, 0>>} /\ lb = 0 /\ col = 0 /\ r_vis = 1) =>
                        mapping' = {<<1, 0>>}
                /\ (mapping = {} /\ lb = 0 /\ col = 0 /\ r_vis = 0) => mapping' = {<<0, 0>>}
      ]_vars

\* Row 0 of bank 0 was mapped to column 0, LFO bank 1 was selected, and the
\* press at visible (0,0) mapped row 8 while row 0 of bank 0 stayed mapped.
C25_Witness ==
    /\ events = 3
    /\ last_midi = <<144, NOTE_GRID(0, 0), 127>>
    /\ current_lfo_bank = 1 /\ current_effect_bank = 0
    /\ mapping = {<<0, 0>>, <<8, 0>>}

\* The visible rows of the current LFO bank mapped to column c.
MappedVisRows(c) == {r \in VisRows : <<current_lfo_bank * NUM_ROWS + r, c>> \in mapping}

\* C26: for every column with no fader override active in any bank, the value
\* a tick computes is latest_lfo_values[r] of the highest visible row r of the
\* current LFO bank whose mapping is true, whatever is mapped in other banks;
\* if no such row is mapped the computed value equals the last sent value, and
\* the bundle of that tick carries no message for the column.
C26_LfoPrecedence ==
    [][/\ OscSenderCompute =>
            \A c \in Cols : (\A b \in LfoBanks : <<b, c>> \notin fader_override_active) =>
                IF MappedVisRows(c) = {}
                THEN next_osc_values_to_send'[c] = osc_sent_values[c]
                ELSE LET r == CHOOSE r \in MappedVisRows(c) : \A q \in MappedVisRows(c) : q <= r
                     IN  next_osc_values_to_send'[c] =
                            latest_lfo_values[current_lfo_bank * NUM_ROWS + r]
       /\ OscSenderSend =>
            \A c \in Cols : next_osc_values_to_send[c] = osc_sent_values[c] =>
                \A k \in 1 .. Len(bundle') : bundle'[k][1] # c
      ]_vars

\* Column 0 is mapped to row 0 of bank 0 and to row 8 of the current bank 1,
\* whose LFO value 0.25 the tick computed; column 1 is unmapped and frozen.
C26_Witness ==
    /\ sender_pc = "send"
    /\ current_lfo_bank = 1
    /\ fader_override_active = {}
    /\ mapping = {<<0, 0>>, <<8, 0>>}
    /\ latest_lfo_values[8] = F32_QUARTER
    /\ latest_lfo_values[0] = 0
    /\ next_osc_values_to_send[0] = F32_QUARTER
    /\ next_osc_values_to_send[1] = osc_sent_values[1]

\* ---- LED feedback ----

\* The velocity the grid LED at visible (r, c) should show: RED if the column
\* is overridden in the current LFO bank and the cell is mapped, GREEN if it
\* is only mapped, OFF otherwise.
DesiredGrid(r, c) ==
    LET row == current_lfo_bank * NUM_ROWS + r
        col == current_effect_bank * NUM_COLS + c
    IN  IF <<row, col>> \notin mapping THEN LED_OFF
        ELSE IF <<current_lfo_bank, col>> \in fader_override_active THEN LED_RED
        ELSE LED_GREEN

\* The velocity of the bank LED with the given note (82..85 LFO banks, 86..89
\* effect banks): the selected LFO bank amber, the selected effect bank blue.
DesiredBank(note) ==
    IF note = 82 + current_lfo_bank THEN LED_ORANGE
    ELSE IF note = 86 + current_effect_bank THEN LED_BLUE_ISH
    ELSE LED_OFF

BankLedsReconciled ==
    /\ \A i \in LfoBanks : led_lfo_banks[i] = DesiredBank(82 + i)
    /\ \A i \in EffectBanks : led_effect_banks[i] = DesiredBank(86 + i)

GridLedsReconciled == \A rc \in GridLeds : led_grid[rc] = DesiredGrid(rc[1], rc[2])

\* The notes sent by the step are exactly those of the LEDs of leds whose
\* cached velocity differs from the desired one, with the desired velocity.
GridDiffSent(leds) ==
    /\ \A rc \in leds :
            (<<NOTE_GRID(rc[1], rc[2]), DesiredGrid(rc[1], rc[2])>> \in led_out')
                <=> (led_grid[rc] # DesiredGrid(rc[1], rc[2]))
    /\ \A n \in led_out' : \E rc \in leds :
            n = <<NOTE_GRID(rc[1], rc[2]), DesiredGrid(rc[1], rc[2])>>

\* C27: while it processes a refresh request the LED task sends a note-on for
\* an LED iff the cached velocity differs from the desired velocity; and a
\* BothRefresh whose grid part runs with the bank LEDs still as desired (no
\* state change since its bank part) ends with the cache equal to the desired
\* velocity for all 64 grid LEDs and all 8 bank LEDs.
C27_LedDiffedWrites ==
    [][/\ UpdateBankSelectLeds =>
            /\ \A i \in LfoBanks :
                    (<<82 + i, DesiredBank(82 + i)>> \in led_out')
                        <=> (led_lfo_banks[i] # DesiredBank(82 + i))
            /\ \A i \in EffectBanks :
                    (<<86 + i, DesiredBank(86 + i)>> \in led_out')
                        <=> (led_effect_banks[i] # DesiredBank(86 + i))
            /\ \A n \in led_out' : n[1] \in 82 .. 89 /\ n[2] = DesiredBank(n[1])
       /\ RefreshGridLeds => GridDiffSent(GridLeds)
       /\ RefreshFaderColumnLeds =>
            GridDiffSent({rc \in GridLeds :
                            current_effect_bank * NUM_COLS + rc[2] = led_req[2]})
       /\ (RefreshGridLeds /\ led_req = <<"BothRefresh">> /\ BankLedsReconciled) =>
            (GridLedsReconciled /\ BankLedsReconciled)'
      ]_vars

\* A BothRefresh handled after the press at (0,0) and CC 48 lit (0,0) red and
\* the LEDs of LFO bank 0 and effect bank 0, and sent the note of (0,0).
C27_Witness ==
    /\ led_pc = "recv"
    /\ led_req = <<"BothRefresh">>
    /\ events = 2
    /\ mapping = {<<0, 0>>}
    /\ fader_override_active = {<<0, 0>>}
    /\ led_grid[<<0, 0>>] = LED_RED
    /\ led_lfo_banks[0] = LED_ORANGE
    /\ led_effect_banks[0] = LED_BLUE_ISH
    /\ <<NOTE_GRID(0, 0), LED_RED>> \in led_out
    /\ GridLedsReconciled /\ BankLedsReconciled

\* C28: once MIDI input has stopped, under fair scheduling of the LED task the
\* LED cache eventually equals, and keeps equal to, the desired velocity of
\* every grid and bank LED of the current view, also when requests were
\* dropped by try_send on the full request channel.
C28_EventualReconciliation == <>[](GridLedsReconciled /\ BankLedsReconciled)

\* ---- locks of the mapping engine ----

\* The locks the task holds.
Held(t) == {l \in LockNames : t \in lk_readers[l] \/ lk_writer[l] = t}

\* The order mapping -> fader_active -> fader_value -> latest_lfo.
LockRank(l) ==
    CHOOSE k \in 1 .. 4 :
        <<"mapping", "fader_override_active", "fader_override_value", "latest_lfo_values">>[k] = l

\* The tasks that keep task t waiting: the holders of the lock it asks for
\* and, for a read() on a platform that prefers writers, the waiting writers.
Blockers(policy, t) ==
    IF Mode(t) = "read"
    THEN ({lk_writer[Wanted(t)]} \ {"none"})
            \cup (IF policy = "writers" THEN WaitingWriters(Wanted(t)) ELSE {})
    ELSE ({lk_writer[Wanted(t)]} \ {"none", t}) \cup lk_readers[Wanted(t)]

\* A set of tasks each of which waits for a task of the set.
Deadlocked(policy) ==
    \E D \in (SUBSET Tasks) \ {{}} :
        \A t \in D : Acquiring(t) /\ Blockers(policy, t) \cap D # {}

\* C29: every task asks for a lock only while it holds locks that come
\* earlier in the order mapping -> fader_active -> fader_value -> latest_lfo;
\* no set of tasks waits for each other, whether the platform's RwLock
\* prefers readers or writers; and the sender holds no lock while it sends.
C29_LockOrder ==
    /\ \A t \in Tasks : Acquiring(t) =>
            \A l \in Held(t) : LockRank(l) < LockRank(Wanted(t))
    /\ ~Deadlocked("readers")
    /\ ~Deadlocked("writers")
    /\ lk_pc["sender"] = "send" => Held("sender") = {}

\* The sender holds mapping and waits for fader_override_active, which the
\* MIDI task holds for a fader CC while it waits for nothing; the LED task
\* holds mapping too.
C29_Witness ==
    /\ Held("sender") = {"mapping"}
    /\ Acquiring("sender")
    /\ lk_writer["fader_override_active"] = "midi"
    /\ Held("led") = {"mapping"}
    /\ Acquiring("led")
    /\ Blockers("readers", "sender") = {"midi"}

\* C30: the matrices the sender reads in one tick are those left by the
\* latest complete MIDI event: never the partial effect of a grid press
\* (override cleared but mapping not yet toggled, exclusivity clearing half
\* done) nor of a CC event (override active, value not yet stored).
C30_SnapshotAtomicity ==
    [][SenderReadRelease => lk_snapshot' = lk_committed]_vars

\* The sender has read the matrices after the presses at (0,0) and (1,0):
\* row 1 is mapped and row 0 is not.
C30_Witness ==
    /\ lk_pc["sender"] = "send"
    /\ events = 2
    /\ last_midi = <<144, NOTE_GRID(1, 0), 127>>
    /\ lk_snapshot[1] = {<<1, 0>>}
    /\ lk_snapshot = lk_committed

\* ---- control port: the run list of find_contiguous_changes ----

\* The runs are half-open ranges within [0, DISPLAY_WIDTH], strictly
\* increasing and non-overlapping, each begins and ends on a differing cell,
\* every differing cell lies in exactly one run, and consecutive runs are at
\* least 4 unchanged cells apart.
RunsWellFormed(runs, front, back, y) ==
    /\ \A k \in 1 .. Len(runs) :
            /\ 0 <= runs[k][1] /\ runs[k][1] < runs[k][2] /\ runs[k][2] <= DISPLAY_WIDTH
            /\ Differs(front, back, y, runs[k][1])
            /\ Differs(front, back, y, runs[k][2] - 1)
    /\ \A k \in 1 .. (Len(runs) - 1) :
            /\ runs[k][2] < runs[k + 1][1]
            /\ runs[k + 1][1] - runs[k][2] >= 4
            /\ \A x \in runs[k][2] .. (runs[k + 1][1] - 1) : ~Differs(front, back, y, x)
    /\ \A x \in XS : Differs(front, back, y, x) =>
            Cardinality({k \in 1 .. Len(runs) : runs[k][1] <= x /\ x < runs[k][2]}) = 1

\* C31: for every row and every front/back content the runs returned by
\* find_contiguous_changes are well formed (see RunsWellFormed); they are the
\* ranges of the LcdWrite messages commit_display returns for the row.
C31_RunsWellFormed ==
    [][CommitReturns =>
        \A y \in YS :
            LET runs == FindContiguousChanges(front_buffer, back_buffer, y)
            IN  /\ RunsWellFormed(runs, front_buffer, back_buffer, y)
                /\ ~AllSpaces(back_buffer) =>
                      /\ Len(RowWrites(commit_result', y)) = Len(runs)
                      /\ \A k \in 1 .. Len(runs) :
                            /\ RowWrites(commit_result', y)[k].x = runs[k][1]
                            /\ Len(RowWrites(commit_result', y)[k].text) =
                                    runs[k][2] - runs[k][1]
      ]_vars

\* commit_display has returned the runs [0,5) (cells 0 and 4 merged) and
\* [9,11) of row 0 and the run [19,20) of row 3.
C31_Witness ==
    /\ diff_pc = "returned"
    /\ applied = 0
    /\ commit_result = <<LcdWrite(0, 0, <<"A", " ", " ", " ", "A">>),
                         LcdWrite(9, 0, <<"A", "A">>),
                         LcdWrite(19, 3, <<"B">>)>>

\* ---- control port: concurrent display calls ----

\* The callers whose lock request waits in a queue, and whom they wait for:
\* the holders of the lock and the requests queued before theirs.
CmWaiting(t) == \E l \in CmLockNames : \E i \in 1 .. Len(cm_locks.wait[l]) :
                    cm_locks.wait[l][i].task = t
CmWaitsFor(t) ==
    UNION {{g.task : g \in cm_locks.held[l]} \cup
           {cm_locks.wait[l][j].task : j \in 1 .. (i - 1)} :
           <<l, i>> \in {p \in CmLockNames \X (1 .. 4) :
                            /\ p[2] <= Len(cm_locks.wait[p[1]])
                            /\ cm_locks.wait[p[1]][p[2]].task = t}}

\* A set of calls each of which waits only for calls of the set.
DisplayStuck ==
    \E S \in SUBSET CmTasks :
        /\ S # {}
        /\ \A t \in S : CmWaiting(t) /\ CmWaitsFor(t) \subseteq S

BothBuffersWriteHeld ==
    \E t \in CmTasks : Holds(t, "front", "write") /\ Holds(t, "back", "write")

\* C32: no interleaving of concurrent commit_display, write_display,
\* clear_display and force_display_refresh calls on one device reaches a
\* state in which calls wait for each other for ever, and no call holds both
\* buffers in write mode.
C32_DisplayDeadlockFree == ~DisplayStuck /\ ~BothBuffersWriteHeld

\* C33: when the commit_display and write_display calls on a connected
\* device have returned and the queue has been written, the device shows
\* front_buffer.
C33_CommitsConsistent ==
    (/\ \A t \in CmTasks : cm_pc[t] = "idle"
     /\ cm_calls["r"] = 0)
        => ShownAfter(cm_queue) = cm_front

\* ---- sender monitor: status invariant ----

StatusConsistent(status) ==
    /\ status.is_routable = ~status.is_connecting
    /\ status.is_connecting = (status.cooldown_until # NoTime)

\* C34: after any sequence of register, report_success, report_failure,
\* set_cooldown_duration and stats reads, every controller record (in the map
\* and in the statistics returned) has is_routable = not is_connecting and
\* is_connecting = (cooldown_until is set), and reports for an unregistered
\* ip:port create no record: only registered keys have one.
C34_StatusInvariant ==
    /\ \A k \in DOMAIN controllers : StatusConsistent(controllers[k])
    /\ \A k \in DOMAIN stats_snapshot.controllers :
            StatusConsistent(stats_snapshot.controllers[k])
    /\ DOMAIN controllers \subseteq RegisterKeys

\* A controller that failed twice is connecting with a cooldown set, after
\* get_stats had returned it as routable following its first cooldown.
C34_Witness ==
    /\ Registered("10.0.0.1:6454")
    /\ controllers["10.0.0.1:6454"].is_connecting
    /\ controllers["10.0.0.1:6454"].failure_count = 2
    /\ controllers["10.0.0.1:6454"].cooldown_until > now
    /\ "10.0.0.1:6454" \in DOMAIN stats_snapshot.controllers
    /\ stats_snapshot.controllers["10.0.0.1:6454"].is_routable
    /\ stats_snapshot.controllers["10.0.0.1:6454"].failure_count = 1

\* ---- mapping engine: LED feedback and routing ----

\* The LED task has handled a BothRefresh, waits in recv on an empty channel,
\* and its cache shows the current state.
QuiescentAfterBothRefresh ==
    /\ led_pc = "recv"
    /\ led_queue = <<>>
    /\ led_req = <<"BothRefresh">>
    /\ GridLedsReconciled
    /\ BankLedsReconciled

\* The sender's rule drives the column from a fader override (main.rs:659-666)
FaderDriven(actual_col_idx_effect) ==
    FaderScan(0, actual_col_idx_effect, fader_override_active, fader_override_value)[1]

\* C35: in a quiescent state after a BothRefresh a grid cell is GREEN only if
\* no fader override of any LFO bank is active for its column; a column the
\* sender drives from a fader override never shows a GREEN cell.
C35_LedAgreesWithRouting ==
    QuiescentAfterBothRefresh =>
        \A rc \in GridLeds :
            led_grid[rc] = LED_GREEN => ~FaderDriven(current_effect_bank * NUM_COLS + rc[2])

\* ---- control port: throughput samples ----

\* C36: whenever update_throughput applies a filter update, the byte deltas
\* it uses were accumulated over exactly the interval time_diff it divides
\* by: the byte counts it subtracts were stored by the read that set
\* last_throughput_update.
C36_SampleConsistent ==
    [][(UpdateThroughput /\ thr_sample'.applied) =>
            /\ thr_stored_at = thr_last_update
            /\ thr_sample'.time_diff = thr_now - thr_stored_at]_vars

\* ---- Art-Net: termination and universe numbers ----

\* C37: for every channels_per_universe >= 0 and every channel_span >= 1 the
\* per-layer chunking loop makes progress: each datagram it hands to the
\* socket shortens data_to_send, so that a send emits finitely many datagrams.
C37_ChunkLoopProgress ==
    [][(ArtChunk /\ art_call.channel_span >= 1 /\ art_pc' # "failed") =>
            Len(art_bytes') < Len(art_bytes)]_vars

\* No universe number of the send exceeds 16 bits.
NoUniverseOverflow(call, zs) ==
    call.base_universe + (Len(zs) + 1) * call.universes_per_layer < U16

\* C38: with default z_indices, whenever ceil(3*W*H / channels_per_universe)
\* <= universes_per_layer and no 16-bit overflow occurs, no two OpDmx
\* datagrams of one send carry the same universe number, for every
\* channel_span >= 1.
C38_UniversesDistinct ==
    (/\ art_call.z_indices = <<"None">>
     /\ art_call.channel_span >= 1
     /\ art_call.channels_per_universe > 0
     /\ Ceil(3 * art_call.width * art_call.height, art_call.channels_per_universe)
            <= art_call.universes_per_layer
     /\ NoUniverseOverflow(art_call, art_zs))
        => \A i, j \in 1 .. Len(art_sent) :
                (i < j /\ art_sent[i].op = "OpDmx" /\ art_sent[j].op = "OpDmx")
                    => art_sent[i].universe # art_sent[j].universe

\* ---- Art-Net: raster addressing ----

InRangeCoords == {p \in PixCoords : PixInRange(p[1], p[2], p[3])}

\* C39: for every raster size and every orientation that is a signed
\* permutation of the axes, transform_coords followed by the index formula
\* maps distinct in-range coordinates to distinct indices of data, so set_pix
\* and get_pix never fault on in-range coordinates; after set_pix(x, y, z, c)
\* the cell (x, y, z) reads c and every other in-range cell reads what it read
\* before; out-of-range coordinates are rejected and leave data unchanged.
C39_RasterBijection ==
    /\ [](ras_pc # "none" =>
            /\ ras_pc = "live"
            /\ \A p \in InRangeCoords : PixIndex(p[1], p[2], p[3]) \in DOMAIN ras_data
            /\ \A p, q \in InRangeCoords :
                    p # q => PixIndex(p[1], p[2], p[3]) # PixIndex(q[1], q[2], q[3]))
    /\ [][\A p \in PixCoords, color \in PixColors :
            set_pix(p[1], p[2], p[3], color) =>
                IF PixInRange(p[1], p[2], p[3])
                THEN /\ ras_result'.outcome = "ok"
                     /\ ras_data'[PixIndex(p[1], p[2], p[3])] = color
                     /\ \A q \in InRangeCoords : q # p =>
                            ras_data'[PixIndex(q[1], q[2], q[3])] =
                                ras_data[PixIndex(q[1], q[2], q[3])]
                ELSE ras_result'.outcome = "ValueError" /\ ras_data' = ras_data]_vars
    /\ [][\A p \in PixCoords :
            get_pix(p[1], p[2], p[3]) =>
                IF PixInRange(p[1], p[2], p[3])
                THEN ras_result'.outcome = "ok"
                     /\ ras_result'.value = ras_data[PixIndex(p[1], p[2], p[3])]
                ELSE ras_result'.outcome = "ValueError"]_vars

\* ---- control port manager: the web monitor's view ----

\* C40: every device inserted by initialize is listed by
\* GET /api/control_ports and resolvable by GET /api/control_ports/:dip/stats,
\* whether start_web_monitor was called before or after initialize, and a
\* device removed by shutdown is no longer listed.
C40_WebMonitorSeesFleet ==
    /\ [][GetControlPorts => web_response'.listed = mgr_ports]_vars
    /\ [][\A dip \in ConfiguredDips :
            (GetControlPortStats(dip) /\ dip \in mgr_ports) => web_response'.status = 200]_vars

====
